---------------------------- MODULE Spec2Model ----------------------------
(***************************************************************************)
(* State machine of the WebGamesRetro rules-and-session engine:            *)
(* app/games/state.py (store, seats, persistence), app/games/chess.py and  *)
(* games/hnefatafl.py (rule engines and request handlers).                 *)
(*                                                                         *)
(* Every handler runs wholly inside `with state_lock:`, so one handler is  *)
(* one atomic action.  A handler is written as an operator from the        *)
(* addressed GameState and the request to its response and the new         *)
(* GameState; the action stores the new GameState and, where the handler   *)
(* calls save_state(), the new file.  A request refused by                 *)
(* enforce_rate_limit (HTTP 429) raises before the lock is taken and       *)
(* changes nothing: it is a stuttering step.                               *)
(*                                                                         *)
(* Python values: a dict is a record, a list is a tuple, an optional value *)
(* is None == <<>> or Some(v) == <<v>>.  A board is a function             *)
(* row -> col -> one-character string (rows 0-based as in the source).     *)
(* A two-character coordinate string is the tuple of its characters.       *)
(***************************************************************************)
EXTENDS Integers, Sequences, FiniteSets, TLC

\* store is the module global STATE of state.py (STATE is a reserved word);
\* disk holds the live file and its temporary sibling; now is int(time.time()).
\* lock is state_lock: None, or the request that holds it while it saves.
\* inflight are the response dicts handlers have returned and the framework
\* has not yet serialized; delivered is the last body sent to a caller.
\* buckets is _buckets of limiter.py and limiter_lock its _lock: None, or the
\* request inside allow_request.  requests are the requests being served,
\* each with its position in its handler; calls records, for every return of
\* allow_request, the key, the clock reading and the value returned.
VARIABLES store, disk, now, lock, inflight, delivered,
          buckets, limiter_lock, requests, calls

vars == <<store, disk, now, lock, inflight, delivered,
          buckets, limiter_lock, requests, calls>>

\* what the handlers of admitted requests leave alone
limiter == <<buckets, limiter_lock, requests, calls>>

\* what the handlers of one request at a time leave alone
threads == <<lock, inflight, delivered>>

-----------------------------------------------------------------------------
(* Bounds of the model *)

\* int(time.time()) at process start; wall-clock seconds are positive
StartTime == 1
\* ClaimSeat is issued only while the addressed version is below MaxClaimVersion
MaxClaimVersion == 2
\* moves are submitted to a running game only while fewer than MaxGames games
\* have ended on the addressed board
MaxGames == 1

-----------------------------------------------------------------------------
(* Python optionals *)

None == <<>>
Some(v) == <<v>>
Get(o) == o[1]
\* truth value of an optional integer: None and 0 are falsy
Truthy(o) == o # None /\ Get(o) # 0
\* Python `a or b` on optional integers
PyOr(a, b) == IF Truthy(a) THEN a ELSE b

-----------------------------------------------------------------------------
(* app/games/state.py *)

SEAT_TIMEOUT_SECONDS == 300
MAX_HISTORY == 200

GAME_PUBLIC == "public"
GAME_SEATS == "seats"
GAME_CHESS == "chess"
GAME_HNEFATAFL == "hnefatafl"

GameNames == {GAME_CHESS, GAME_HNEFATAFL}
GameIds == {GAME_PUBLIC, GAME_SEATS}

ZeroStats == [p1_wins |-> 0, p2_wins |-> 0, draws |-> 0, total_games |-> 0]
EmptySeats == [p1 |-> None, p2 |-> None]

MkBoard(rows) == [r \in 0..(Len(rows) - 1) |->
                    [c \in 0..(Len(rows[r + 1]) - 1) |-> rows[r + 1][c + 1]]]

default_game_state ==
    [board |-> MkBoard(<<
        <<"r","n","b","q","k","b","n","r">>,
        <<"p","p","p","p","p","p","p","p">>,
        <<".",".",".",".",".",".",".",".">>,
        <<".",".",".",".",".",".",".",".">>,
        <<".",".",".",".",".",".",".",".">>,
        <<".",".",".",".",".",".",".",".">>,
        <<"P","P","P","P","P","P","P","P">>,
        <<"R","N","B","Q","K","B","N","R">> >>),
     current_player |-> 1,
     move_history |-> <<>>,
     game_over |-> FALSE,
     result |-> None,
     stats |-> ZeroStats,
     started_at |-> None,
     last_played_at |-> None,
     version |-> 0]

HnefKing == <<4, 4>>
HnefDefenders == { <<4,2>>, <<4,3>>, <<4,5>>, <<4,6>>,
                   <<2,4>>, <<3,4>>, <<5,4>>, <<6,4>> }
HnefAttackers == { <<3,0>>, <<4,0>>, <<5,0>>, <<4,1>>,
                   <<3,8>>, <<4,8>>, <<5,8>>, <<4,7>>,
                   <<0,3>>, <<0,4>>, <<0,5>>, <<1,4>>,
                   <<8,3>>, <<8,4>>, <<8,5>>, <<7,4>> }

\* rand is the value of secrets.randbelow(2)
default_hnefatafl_game_state(rand) ==
    [board |-> [y \in 0..8 |-> [x \in 0..8 |->
                   IF <<x, y>> = HnefKing THEN "K"
                   ELSE IF <<x, y>> \in HnefDefenders THEN "D"
                   ELSE IF <<x, y>> \in HnefAttackers THEN "A"
                   ELSE "."]],
     current_player |-> 1 + rand,
     move_history |-> <<>>,
     game_over |-> FALSE,
     result |-> None,
     stats |-> ZeroStats,
     started_at |-> None,
     last_played_at |-> None,
     version |-> 0]

\* dict with the extra key "seats"
WithSeats(game, seats) ==
    [k \in (DOMAIN game) \cup {"seats"} |-> IF k = "seats" THEN seats ELSE game[k]]

build_game_container(default) ==
    [k \in GameIds |-> IF k = GAME_PUBLIC THEN default
                       ELSE WithSeats(default, EmptySeats)]

default_state(rand_public, rand_seats) ==
    [games |-> [g \in GameNames |->
        IF g = GAME_CHESS
        THEN build_game_container(default_game_state)
        ELSE [k \in GameIds |->
                IF k = GAME_PUBLIC
                THEN default_hnefatafl_game_state(rand_public)
                ELSE WithSeats(default_hnefatafl_game_state(rand_seats), EmptySeats)]]]

get_game_id(game) == IF game = GAME_SEATS THEN GAME_SEATS ELSE GAME_PUBLIC

get_game(game_id, game_name) == store.games[game_name][game_id]

SeatKeys == <<"p1", "p2">>

\* faulty variant: a seat expires at exactly the timeout
StaleExpiry_at_timeout(t, last_active) ==
    last_active # None /\ Get(last_active) # 0
    /\ t - Get(last_active) >= SEAT_TIMEOUT_SECONDS

StaleExpiry(t, last_active) == last_active # None /\ Get(last_active) # 0
                               /\ t - Get(last_active) > SEAT_TIMEOUT_SECONDS

\* returns the new game and whether a seat was cleared
expire_seats(game, t) ==
    IF "seats" \notin DOMAIN game
    THEN [changed |-> FALSE, game |-> game]
    ELSE LET key == SeatKeys[game.current_player]
             seat == game.seats[key]
             last_active == PyOr(Get(seat).last_active, Get(seat).assigned_at)
         IN IF seat # None /\ StaleExpiry(t, last_active)
            THEN [changed |-> TRUE,
                  game |-> [game EXCEPT !.seats[key] = None]]
            ELSE [changed |-> FALSE, game |-> game]

\* None, or Some(player)
seat_player_for_session(game, session_id) ==
    IF session_id = "" \/ "seats" \notin DOMAIN game THEN None
    ELSE IF game.seats.p1 # None /\ Get(game.seats.p1).session_id = session_id
         THEN Some(1)
    ELSE IF game.seats.p2 # None /\ Get(game.seats.p2).session_id = session_id
         THEN Some(2)
    ELSE None

\* faulty variant: a session that holds a seat is given a free one as well
claim_seat_seats_again(game, session_id, t) ==
    LET g1 == expire_seats(game, t).game
        available == {k \in {"p1", "p2"} : g1.seats[k] = None}
        seat_key == IF "p1" \in available THEN "p1" ELSE "p2"
    IN IF available = {}
       THEN [player |-> 0, session_id |-> session_id, game |-> g1]
       ELSE [player |-> IF seat_key = "p1" THEN 1 ELSE 2,
             session_id |-> session_id,
             game |-> [g1 EXCEPT !.seats[seat_key] =
                         Some([session_id |-> session_id,
                               assigned_at |-> Some(t),
                               last_active |-> None])]]

\* faulty variant: a re-claim by a seated session renews the seat
claim_seat_renews(game, session_id, t) ==
    LET g1 == expire_seats(game, t).game
        existing_player == seat_player_for_session(g1, session_id)
        available == {k \in {"p1", "p2"} : g1.seats[k] = None}
        seat_key == IF "p1" \in available THEN "p1" ELSE "p2"
        new_seat == Some([session_id |-> session_id, assigned_at |-> Some(t),
                          last_active |-> None])
    IN IF existing_player # None
       THEN [player |-> Get(existing_player), session_id |-> session_id,
             game |-> [g1 EXCEPT !.seats[SeatKeys[Get(existing_player)]] = new_seat]]
       ELSE IF available = {}
       THEN [player |-> 0, session_id |-> session_id, game |-> g1]
       ELSE [player |-> IF seat_key = "p1" THEN 1 ELSE 2,
             session_id |-> session_id,
             game |-> [g1 EXCEPT !.seats[seat_key] = new_seat]]

\* faulty variant: the second slot is preferred
claim_seat_prefers_p2(game, session_id, t) ==
    LET g1 == expire_seats(game, t).game
        existing_player == seat_player_for_session(g1, session_id)
        available == {k \in {"p1", "p2"} : g1.seats[k] = None}
        seat_key == IF "p2" \in available THEN "p2" ELSE "p1"
    IN IF existing_player # None
       THEN [player |-> Get(existing_player), session_id |-> session_id, game |-> g1]
       ELSE IF available = {}
       THEN [player |-> 0, session_id |-> session_id, game |-> g1]
       ELSE [player |-> IF seat_key = "p1" THEN 1 ELSE 2,
             session_id |-> session_id,
             game |-> [g1 EXCEPT !.seats[seat_key] =
                         Some([session_id |-> session_id,
                               assigned_at |-> Some(t),
                               last_active |-> None])]]

\* returns the player, the session id and the new game
claim_seat(game, session_id, t) ==
    LET g1 == expire_seats(game, t).game
        existing_player == seat_player_for_session(g1, session_id)
        available == {k \in {"p1", "p2"} : g1.seats[k] = None}
        seat_key == IF "p1" \in available THEN "p1" ELSE "p2"
    IN IF existing_player # None
       THEN [player |-> Get(existing_player), session_id |-> session_id, game |-> g1]
       ELSE IF available = {}
       THEN [player |-> 0, session_id |-> session_id, game |-> g1]
       ELSE [player |-> IF seat_key = "p1" THEN 1 ELSE 2,
             session_id |-> session_id,
             game |-> [g1 EXCEPT !.seats[seat_key] =
                         Some([session_id |-> session_id,
                               assigned_at |-> Some(t),
                               last_active |-> None])]]

-----------------------------------------------------------------------------
(* JSON documents.  A JSON value is the pair of its type and its payload;  *)
(* j[1] is the type and j[2] the payload.  The payload of a                 *)
(* string is the model value that stands for the Python str.  The content   *)
(* of a file is [k |-> "json", v |-> value] when it parses, else            *)
(* [k |-> "not_json"], [k |-> "truncated"] or [k |-> "not_utf8"].           *)

J_null == <<"null">>
J_int(n) == <<"int", n>>
J_str(x) == <<"str", x>>
J_bool(b) == <<"bool", b>>
J_arr(a) == <<"arr", a>>
J_obj(f) == <<"obj", f>>

\* isinstance(value, dict)
is_dict(j) == j[1] = "obj"

\* dict.get(key)
dict_get(j, key) == IF key \in DOMAIN j[2] THEN j[2][key] ELSE J_null

\* d[key] = value
dict_set(j, key, value) ==
    J_obj([k \in (DOMAIN j[2]) \cup {key} |-> IF k = key THEN value ELSE j[2][k]])

enc_opt_int(o) == IF o = None THEN J_null ELSE J_int(Get(o))
dec_opt_int(j) == IF j[1] = "null" THEN None ELSE Some(j[2])

enc_seat(s) ==
    IF s = None THEN J_null
    ELSE J_obj([session_id |-> J_str(Get(s).session_id),
                assigned_at |-> enc_opt_int(Get(s).assigned_at),
                last_active |-> enc_opt_int(Get(s).last_active)])

dec_seat(j) ==
    IF j[1] = "null" THEN None
    ELSE Some([session_id |-> j[2].session_id[2],
               assigned_at |-> dec_opt_int(j[2].assigned_at),
               last_active |-> dec_opt_int(j[2].last_active)])

enc_result(r) ==
    IF r = None THEN J_null
    ELSE J_obj([title |-> J_str(Get(r).title),
                message |-> J_str(Get(r).message),
                winner |-> enc_opt_int(Get(r).winner)])

dec_result(j) ==
    IF j[1] = "null" THEN None
    ELSE Some([title |-> j[2].title[2], message |-> j[2].message[2],
               winner |-> dec_opt_int(j[2].winner)])

\* the JSON value of one field of a GameState as json.dumps writes it
enc_field(key, x) ==
    CASE key = "board" ->
            J_arr([i \in 1..Cardinality(DOMAIN x) |-> J_str(x[i - 1])])
      [] key = "move_history" -> J_arr([i \in 1..Len(x) |-> J_str(x[i])])
      [] key \in {"current_player", "version"} -> J_int(x)
      [] key = "game_over" -> J_bool(x)
      [] key = "result" -> enc_result(x)
      [] key = "stats" -> J_obj([k \in DOMAIN x |-> J_int(x[k])])
      [] key \in {"started_at", "last_played_at"} -> enc_opt_int(x)
      [] key = "seats" -> J_obj([k \in DOMAIN x |-> enc_seat(x[k])])

\* the Python value json.loads gives back for a field written by enc_field
dec_field(key, j) ==
    CASE key = "board" -> [r \in 0..(Len(j[2]) - 1) |-> j[2][r + 1][2]]
      [] key = "move_history" -> [i \in 1..Len(j[2]) |-> j[2][i][2]]
      [] key \in {"current_player", "version"} -> j[2]
      [] key = "game_over" -> j[2]
      [] key = "result" -> dec_result(j)
      [] key = "stats" -> [k \in DOMAIN j[2] |-> j[2][k][2]]
      [] key \in {"started_at", "last_played_at"} -> dec_opt_int(j)
      [] key = "seats" -> [k \in DOMAIN j[2] |-> dec_seat(j[2][k])]

enc_game(g) == J_obj([k \in DOMAIN g |-> enc_field(k, g[k])])
dec_game(j) == [k \in DOMAIN j[2] |-> dec_field(k, j[2][k])]

enc_state(state) ==
    J_obj([games |-> J_obj([g \in GameNames |->
              J_obj([id \in GameIds |-> enc_game(state.games[g][id])])])])

dec_state(j) ==
    [games |-> [g \in GameNames |-> [id \in GameIds |->
                   dec_game(j[2].games[2][g][2][id])]]]

\* json.dumps of the store: the content the file will hold
json_dumps(state) == [k |-> "json", v |-> enc_state(state)]

\* normalize_seat inside merge_game_state
normalize_seat(seat) ==
    IF ~is_dict(seat) THEN seat
    ELSE IF "session_id" \in DOMAIN seat[2] THEN seat
    ELSE IF "token" \in DOMAIN seat[2]
    THEN J_obj([k \in ((DOMAIN seat[2]) \ {"token"}) \cup {"session_id"} |->
                   IF k = "session_id" THEN seat[2]["token"] ELSE seat[2][k]])
    ELSE seat

\* faulty variant: persisted stats are not read back
merge_item_default_stats(defaults, key, value) ==
    IF key = "stats" THEN defaults[2]["stats"]
    ELSE IF key = "seats" /\ is_dict(value)
    THEN J_obj([p1 |-> normalize_seat(dict_get(value, "p1")),
                p2 |-> normalize_seat(dict_get(value, "p2"))])
    ELSE value

\* the value merged[key] gets for one item of incoming
merge_item(defaults, key, value) ==
    IF key = "stats" /\ is_dict(value)
    THEN J_obj([k \in (DOMAIN defaults[2]["stats"][2]) \cup (DOMAIN value[2]) |->
                   IF k \in DOMAIN value[2] THEN value[2][k]
                   ELSE defaults[2]["stats"][2][k]])
    ELSE IF key = "seats" /\ is_dict(value)
    THEN J_obj([p1 |-> normalize_seat(dict_get(value, "p1")),
                p2 |-> normalize_seat(dict_get(value, "p2"))])
    ELSE value

merge_game_state(defaults, incoming) ==
    LET merged == J_obj([k \in (DOMAIN defaults[2]) \cup (DOMAIN incoming[2]) |->
                            IF k \in DOMAIN incoming[2]
                            THEN merge_item(defaults, k, incoming[2][k])
                            ELSE defaults[2][k]])
    IN IF "seats" \in DOMAIN defaults[2] /\ "seats" \notin DOMAIN merged[2]
       THEN dict_set(merged, "seats", J_obj([p1 |-> J_null, p2 |-> J_null]))
       ELSE merged

\* state["games"][game_name][game_id] = game
set_game(state, game_name, game_id, game) ==
    J_obj([games |-> dict_set(state[2].games, game_name,
                        dict_set(state[2].games[2][game_name], game_id, game))])

\* the branch of load_state for {"games": {"public": ..., "seats": ...}}
load_legacy_games(state, games) ==
    LET with_public ==
            IF GAME_PUBLIC \in DOMAIN games[2] /\ is_dict(games[2][GAME_PUBLIC])
            THEN set_game(state, GAME_CHESS, GAME_PUBLIC,
                    merge_game_state(enc_game(default_game_state),
                                     games[2][GAME_PUBLIC]))
            ELSE state
    IN IF GAME_SEATS \in DOMAIN games[2] /\ is_dict(games[2][GAME_SEATS])
       THEN set_game(with_public, GAME_CHESS, GAME_SEATS,
               merge_game_state(state[2].games[2][GAME_CHESS][2][GAME_SEATS],
                                games[2][GAME_SEATS]))
       ELSE with_public

\* the final loop of load_state over the games and selectors of the default
load_current_games(state, games) ==
    J_obj([games |-> J_obj([g \in GameNames |-> J_obj([id \in GameIds |->
        LET defaults == state[2].games[2][g]
            incoming == dict_get(games, g)
        IN IF is_dict(incoming) /\ id \in DOMAIN incoming[2]
              /\ is_dict(incoming[2][id])
           THEN merge_game_state(defaults[2][id], incoming[2][id])
           ELSE defaults[2][id]])])])

\* load_state on the live file (None when it does not exist): whether it
\* raised, and the JSON value of STATE afterwards.  The two rands are the
\* draws of the default_state() it builds.
load_state(file, rand_public, rand_seats) ==
    LET fresh == enc_state(default_state(rand_public, rand_seats))
        loaded(state) == [raised |-> FALSE, state |-> state]
    IN IF file = None THEN loaded(fresh)
       ELSE IF Get(file).k = "not_utf8" THEN [raised |-> TRUE, state |-> fresh]
       ELSE IF Get(file).k # "json" THEN loaded(fresh)
       ELSE LET data == Get(file).v
            IN IF ~is_dict(data) THEN loaded(fresh)
               ELSE IF "games" \notin DOMAIN data[2] /\ "board" \in DOMAIN data[2]
               THEN loaded(set_game(fresh, GAME_CHESS, GAME_PUBLIC,
                              merge_game_state(enc_game(default_game_state), data)))
               ELSE IF ~is_dict(dict_get(data, "games")) THEN loaded(fresh)
               ELSE IF GAME_PUBLIC \in DOMAIN data[2].games[2]
                       \/ GAME_SEATS \in DOMAIN data[2].games[2]
               THEN loaded(load_legacy_games(fresh, data[2].games))
               ELSE loaded(load_current_games(fresh, data[2].games))

\* faulty variant: the payload is written over the live file itself
write_text_begin_in_place(d) ==
    [d EXCEPT !.live = Some([k |-> "truncated"])]

\* Path.write_text opens the temporary sibling for writing: until the write
\* completes the file holds a prefix of the payload
write_text_begin(d) == [d EXCEPT !.tmp = Some([k |-> "truncated"])]

\* Path.write_text completed
write_text(d, payload) == [d EXCEPT !.tmp = Some(payload)]

\* os.replace(tmp_path, STATE_FILE)
os_replace(d) == [live |-> d.tmp, tmp |-> None]

\* write the payload to the temporary sibling, then os.replace it over the live file
save_state(d, state) == os_replace(write_text(write_text_begin(d), json_dumps(state)))

seat_info(game, session_id) ==
    LET seat_player == seat_player_for_session(game, session_id)
    IN [p1 |-> game.seats.p1 # None,
        p2 |-> game.seats.p2 # None,
        player |-> IF seat_player = None THEN 0 ELSE Get(seat_player)]

\* the snapshot returned to the caller
with_meta(game_id, game, session_id, t) ==
    [state |-> game, game_id |-> game_id, server_time |-> t,
     seat_info |-> IF game_id = GAME_SEATS THEN Some(seat_info(game, session_id))
                   ELSE None]

bump(game) == [game EXCEPT !.version = @ + 1]

-----------------------------------------------------------------------------
(* Strings: str.lower() and int() on single characters *)

UpperToLower == [A |-> "a", B |-> "b", C |-> "c", D |-> "d", E |-> "e",
                 F |-> "f", G |-> "g", H |-> "h", I |-> "i",
                 K |-> "k", N |-> "n", P |-> "p", Q |-> "q", R |-> "r"]

\* str.lower() of a one-character string
LowerChar(ch) == IF ch \in DOMAIN UpperToLower THEN UpperToLower[ch] ELSE ch

\* str.isupper() of a one-character string
IsUpperChar(ch) == ch \in DOMAIN UpperToLower

\* str.lower() of a string
lower(str) == [i \in 1..Len(str) |-> LowerChar(str[i])]

DigitChars == {"0", "1", "2", "3", "4", "5", "6", "7", "8", "9"}

\* int(ch): Some(value), or None where Python raises ValueError
int(ch) == IF ch \in DigitChars
           THEN Some(CHOOSE n \in 0..9 : ch = <<"0","1","2","3","4","5","6","7","8","9">>[n + 1])
           ELSE None

\* list.index: 0-based position of x in the list, -1 when absent
IndexOf(list, x) == IF \E i \in 1..Len(list) : list[i] = x
                    THEN (CHOOSE i \in 1..Len(list) : list[i] = x) - 1
                    ELSE -1

-----------------------------------------------------------------------------
(* app/games/chess.py: rule engine *)

CHESS_FILES == <<"a", "b", "c", "d", "e", "f", "g", "h">>

\* None, or Some([row, col])
chess_coord_to_index(coord) ==
    IF Len(coord) # 2 THEN None
    ELSE LET rank == int(coord[2])
             col == IndexOf(CHESS_FILES, coord[1])
         IN IF rank = None THEN None
            ELSE IF col < 0 THEN None
            ELSE IF 8 - Get(rank) < 0 \/ 8 - Get(rank) > 7 THEN None
            ELSE Some([row |-> 8 - Get(rank), col |-> col])

chess_get_player(piece) ==
    IF piece = "." THEN 0 ELSE IF IsUpperChar(piece) THEN 1 ELSE 2

chess_is_inside(row, col) == 0 <= row /\ row < 8 /\ 0 <= col /\ col < 8

chess_is_friendly(board, row, col, player) ==
    board[row][col] # "." /\ chess_get_player(board[row][col]) = player

\* faulty variant: a pawn on the last rank stays a pawn
chess_apply_move_no_promotion(board, from_idx, to_idx) ==
    [board EXCEPT ![to_idx.row][to_idx.col] = board[from_idx.row][from_idx.col],
                  ![from_idx.row][from_idx.col] = "."]

chess_apply_move(board, from_idx, to_idx) ==
    LET piece == board[from_idx.row][from_idx.col]
        moved == [board EXCEPT ![to_idx.row][to_idx.col] = piece,
                               ![from_idx.row][from_idx.col] = "."]
    IN IF LowerChar(piece) = "p" /\ (to_idx.row = 0 \/ to_idx.row = 7)
       THEN [moved EXCEPT ![to_idx.row][to_idx.col] =
                IF chess_get_player(piece) = 1 THEN "Q" ELSE "q"]
       ELSE moved

KnightJumps == { <<2,1>>, <<1,2>>, <<-1,2>>, <<-2,1>>,
                 <<-2,-1>>, <<-1,-2>>, <<1,-2>>, <<2,-1>> }
DiagonalDirs == { <<1,1>>, <<1,-1>>, <<-1,1>>, <<-1,-1>> }
StraightDirs == { <<1,0>>, <<-1,0>>, <<0,1>>, <<0,-1>> }

SlideDirs(piece_type) ==
    (IF piece_type \in {"b", "q"} THEN DiagonalDirs ELSE {})
    \cup (IF piece_type \in {"r", "q"} THEN StraightDirs ELSE {})

\* the while loop of a slider: the k-th square of the ray is visited when it is
\* inside and every square before it on the ray is empty
RayVisited(board, row, col, d, k) ==
    /\ chess_is_inside(row + k * d[1], col + k * d[2])
    /\ \A j \in 1..(k - 1) : board[row + j * d[1]][col + j * d[2]] = "."

\* the set of destinations [row, col] the code appends
get_pseudo_moves(board, row, col, piece) ==
    LET piece_type == LowerChar(piece)
        player == chess_get_player(piece)
        is_white == player = 1
        direction == IF is_white THEN -1 ELSE 1
        start_row == IF is_white THEN 6 ELSE 1
        next_row == row + direction
        two_row == row + direction * 2
    IN CASE piece_type = "p" ->
              (IF chess_is_inside(next_row, col) /\ board[next_row][col] = "."
               THEN {[row |-> next_row, col |-> col]}
                    \cup (IF row = start_row /\ board[two_row][col] = "."
                          THEN {[row |-> two_row, col |-> col]} ELSE {})
               ELSE {})
              \cup {[row |-> next_row, col |-> col + delta] : delta \in
                      {dl \in {-1, 1} :
                         /\ chess_is_inside(next_row, col + dl)
                         /\ board[next_row][col + dl] # "."
                         /\ chess_get_player(board[next_row][col + dl]) # player}}
         [] piece_type = "n" ->
              {[row |-> row + j[1], col |-> col + j[2]] : j \in
                 {jj \in KnightJumps :
                    /\ chess_is_inside(row + jj[1], col + jj[2])
                    /\ ~chess_is_friendly(board, row + jj[1], col + jj[2], player)}}
         [] piece_type \in {"b", "r", "q"} ->
              UNION {{[row |-> row + k * d[1], col |-> col + k * d[2]] : k \in
                        {kk \in 1..7 :
                           /\ RayVisited(board, row, col, d, kk)
                           /\ ~chess_is_friendly(board, row + kk * d[1],
                                                 col + kk * d[2], player)}}
                     : d \in SlideDirs(piece_type)}
         [] piece_type = "k" ->
              {[row |-> row + d[1], col |-> col + d[2]] : d \in
                 {dd \in ((-1..1) \X (-1..1)) \ {<<0, 0>>} :
                    /\ chess_is_inside(row + dd[1], col + dd[2])
                    /\ ~chess_is_friendly(board, row + dd[1], col + dd[2], player)}}
         [] OTHER -> {}

ChessSquares == (0..7) \X (0..7)

\* None, or Some([row, col]) of the first king in row-major order
chess_find_king(board, player) ==
    LET target == IF player = 1 THEN "K" ELSE "k"
        found == {sq \in ChessSquares : board[sq[1]][sq[2]] = target}
    IN IF found = {} THEN None
       ELSE LET first == CHOOSE sq \in found :
                            \A other \in found :
                               sq[1] < other[1] \/ (sq[1] = other[1] /\ sq[2] <= other[2])
            IN Some([row |-> first[1], col |-> first[2]])

Abs(n) == IF n < 0 THEN -n ELSE n

Sign(n) == IF n > 0 THEN 1 ELSE IF n < 0 THEN -1 ELSE 0

\* whether the piece standing on (r, c) attacks (row, col)
PieceAttacks(board, r, c, row, col, attacker) ==
    LET piece_type == LowerChar(board[r][c])
        direction == IF attacker = 1 THEN -1 ELSE 1
    IN CASE piece_type = "p" ->
              r + direction = row /\ (c - 1 = col \/ c + 1 = col)
         [] piece_type = "n" ->
              \E j \in KnightJumps : r + j[1] = row /\ c + j[2] = col
         [] piece_type \in {"b", "r", "q"} ->
              \* the ray walk returns True when (row, col) is the k-th square of
              \* a ray of the piece and the ray is visited up to it: the only
              \* candidate ray is the one pointing at (row, col)
              LET d == <<Sign(row - r), Sign(col - c)>>
                  k == IF Abs(row - r) > Abs(col - c) THEN Abs(row - r)
                       ELSE Abs(col - c)
              IN /\ d \in SlideDirs(piece_type)
                 /\ r + k * d[1] = row /\ c + k * d[2] = col
                 /\ RayVisited(board, r, c, d, k)
         [] piece_type = "k" ->
              Abs(r - row) <= 1 /\ Abs(c - col) <= 1
         [] OTHER -> FALSE

is_square_attacked(board, row, col, attacker) ==
    \E sq \in ChessSquares :
       /\ board[sq[1]][sq[2]] # "."
       /\ chess_get_player(board[sq[1]][sq[2]]) = attacker
       /\ PieceAttacks(board, sq[1], sq[2], row, col, attacker)

is_in_check(board, player) ==
    LET king_pos == chess_find_king(board, player)
        opponent == IF player = 1 THEN 2 ELSE 1
    IN IF king_pos = None THEN FALSE
       ELSE is_square_attacked(board, Get(king_pos).row, Get(king_pos).col, opponent)

\* faulty variant: the pseudo-moves are not filtered for check
LegalMove_unfiltered(board, player, from_idx, to_idx) ==
    LET piece == board[from_idx.row][from_idx.col]
    IN /\ piece # "."
       /\ chess_get_player(piece) = player
       /\ to_idx \in get_pseudo_moves(board, from_idx.row, from_idx.col, piece)

\* whether get_legal_moves appends the move from -> to
LegalMove(board, player, from_idx, to_idx) ==
    LET piece == board[from_idx.row][from_idx.col]
    IN /\ piece # "."
       /\ chess_get_player(piece) = player
       /\ to_idx \in get_pseudo_moves(board, from_idx.row, from_idx.col, piece)
       /\ ~is_in_check(chess_apply_move(board, from_idx, to_idx), player)

\* the set of moves [from, to] of the list the code builds
get_legal_moves(board, player) ==
    UNION {{[from |-> [row |-> sq[1], col |-> sq[2]], to |-> to_idx] : to_idx \in
              {t \in get_pseudo_moves(board, sq[1], sq[2], board[sq[1]][sq[2]]) :
                 LegalMove(board, player, [row |-> sq[1], col |-> sq[2]], t)}}
           : sq \in {s \in ChessSquares :
                       board[s[1]][s[2]] # "."
                       /\ chess_get_player(board[s[1]][s[2]]) = player}}

\* any(move == (from_idx, to_idx) for move in get_legal_moves(board, player))
chess_is_legal_move(board, from_idx, to_idx, player) ==
    LegalMove(board, player, from_idx, to_idx)

\* whether the list get_legal_moves(board, player) is non-empty
has_legal_moves(board, player) ==
    \E sq \in ChessSquares :
       /\ board[sq[1]][sq[2]] # "."
       /\ chess_get_player(board[sq[1]][sq[2]]) = player
       /\ \E t \in get_pseudo_moves(board, sq[1], sq[2], board[sq[1]][sq[2]]) :
             LegalMove(board, player, [row |-> sq[1], col |-> sq[2]], t)

\* faulty variant: the mated side is named the winner
chess_check_for_game_end_mated_wins(board, player_to_move) ==
    IF has_legal_moves(board, player_to_move) THEN None
    ELSE IF is_in_check(board, player_to_move)
    THEN Some([title |-> "Checkmate",
               message |-> IF player_to_move = 1 THEN "Winner: Player 1"
                           ELSE "Winner: Player 2",
               winner |-> Some(player_to_move)])
    ELSE Some([title |-> "Draw", message |-> "Stalemate", winner |-> None])

\* faulty variant: a side without a legal move has always lost
chess_check_for_game_end_no_stalemate(board, player_to_move) ==
    IF has_legal_moves(board, player_to_move) THEN None
    ELSE Some([title |-> "Checkmate",
               message |-> IF player_to_move = 1 THEN "Winner: Player 2"
                           ELSE "Winner: Player 1",
               winner |-> Some(IF player_to_move = 1 THEN 2 ELSE 1)])

\* None, or Some(result)
chess_check_for_game_end(board, player_to_move) ==
    IF has_legal_moves(board, player_to_move) THEN None
    ELSE IF is_in_check(board, player_to_move)
    THEN Some([title |-> "Checkmate",
               message |-> IF player_to_move = 1 THEN "Winner: Player 2"
                           ELSE "Winner: Player 1",
               winner |-> Some(IF player_to_move = 1 THEN 2 ELSE 1)])
    ELSE Some([title |-> "Draw", message |-> "Stalemate", winner |-> None])

-----------------------------------------------------------------------------
(* games/hnefatafl.py: rule engine *)

HNEF_FILES == <<"a", "b", "c", "d", "e", "f", "g", "h", "i">>
BOARD_SIZE == 9
CASTLES == { <<0, 0>>, <<0, 8>>, <<8, 0>>, <<8, 8>> }
THRONE == <<4, 4>>

\* None, or Some([row, col])
hnef_coord_to_index(coord) ==
    IF Len(coord) # 2 THEN None
    ELSE LET rank == int(coord[2])
             col == IndexOf(HNEF_FILES, coord[1])
         IN IF rank = None THEN None
            ELSE IF col < 0 THEN None
            ELSE IF BOARD_SIZE - Get(rank) < 0 \/ BOARD_SIZE - Get(rank) >= BOARD_SIZE
                 THEN None
            ELSE Some([row |-> BOARD_SIZE - Get(rank), col |-> col])

hnef_get_player(piece) ==
    IF piece = "." THEN 0 ELSE IF piece = "A" THEN 2 ELSE 1

hnef_is_inside(row, col) ==
    0 <= row /\ row < BOARD_SIZE /\ 0 <= col /\ col < BOARD_SIZE

is_special_square(row, col) == <<row, col>> = THRONE \/ <<row, col>> \in CASTLES

\* faulty variant: the throne and the castles are open to every piece
path_clear_any_piece(board, from_idx, to_idx, piece) ==
    LET step_row == Sign(to_idx.row - from_idx.row)
        step_col == Sign(to_idx.col - from_idx.col)
        dist == Abs(to_idx.row - from_idx.row) + Abs(to_idx.col - from_idx.col)
    IN IF from_idx.row = to_idx.row /\ from_idx.col = to_idx.col THEN FALSE
       ELSE IF from_idx.row # to_idx.row /\ from_idx.col # to_idx.col THEN FALSE
       ELSE IF board[to_idx.row][to_idx.col] # "." THEN FALSE
       ELSE \A k \in 1..(dist - 1) :
               board[from_idx.row + k * step_row][from_idx.col + k * step_col] = "."

path_clear(board, from_idx, to_idx, piece) ==
    LET step_row == Sign(to_idx.row - from_idx.row)
        step_col == Sign(to_idx.col - from_idx.col)
        dist == Abs(to_idx.row - from_idx.row) + Abs(to_idx.col - from_idx.col)
    IN IF from_idx.row = to_idx.row /\ from_idx.col = to_idx.col THEN FALSE
       ELSE IF from_idx.row # to_idx.row /\ from_idx.col # to_idx.col THEN FALSE
       ELSE IF board[to_idx.row][to_idx.col] # "." THEN FALSE
       ELSE IF piece # "K" /\ is_special_square(to_idx.row, to_idx.col) THEN FALSE
       ELSE \A k \in 1..(dist - 1) :
               LET cur_row == from_idx.row + k * step_row
                   cur_col == from_idx.col + k * step_col
               IN /\ board[cur_row][cur_col] = "."
                  /\ ~(piece # "K" /\ is_special_square(cur_row, cur_col))

\* faulty variant: a piece that lands between two enemy pieces is taken too
collect_captures_takes_mover(board, row, col, player) ==
    {<<row + d[1], col + d[2]>> : d \in
       {dd \in StraightDirs :
          /\ hnef_is_inside(row + dd[1], col + dd[2])
          /\ LET adj_piece == board[row + dd[1]][col + dd[2]]
             IN ~(adj_piece = "." \/ hnef_get_player(adj_piece) = player
                  \/ adj_piece = "K")
          /\ hnef_is_inside(row + 2 * dd[1], col + 2 * dd[2])
          /\ LET beyond_piece == board[row + 2 * dd[1]][col + 2 * dd[2]]
             IN beyond_piece # "." /\ hnef_get_player(beyond_piece) = player}}
    \cup {sq \in {<<row, col>>} :
            \E dd \in StraightDirs :
               /\ hnef_is_inside(row + dd[1], col + dd[2])
               /\ hnef_is_inside(row - dd[1], col - dd[2])
               /\ hnef_get_player(board[row + dd[1]][col + dd[2]]) \notin {0, player}
               /\ hnef_get_player(board[row - dd[1]][col - dd[2]]) \notin {0, player}}

\* faulty variant: a king between two attackers is taken like any other piece
collect_captures_takes_king(board, row, col, player) ==
    {<<row + d[1], col + d[2]>> : d \in
       {dd \in StraightDirs :
          /\ hnef_is_inside(row + dd[1], col + dd[2])
          /\ LET adj_piece == board[row + dd[1]][col + dd[2]]
             IN ~(adj_piece = "." \/ hnef_get_player(adj_piece) = player)
          /\ hnef_is_inside(row + 2 * dd[1], col + 2 * dd[2])
          /\ LET beyond_piece == board[row + 2 * dd[1]][col + 2 * dd[2]]
             IN beyond_piece # "." /\ hnef_get_player(beyond_piece) = player}}

hnef_apply_move(board, from_idx, to_idx) ==
    [board EXCEPT ![to_idx.row][to_idx.col] = board[from_idx.row][from_idx.col],
                  ![from_idx.row][from_idx.col] = "."]

\* faulty variant: a piece next to the landing square is taken whatever stands
\* behind it
collect_captures_without_anvil(board, row, col, player) ==
    {<<row + d[1], col + d[2]>> : d \in
       {dd \in StraightDirs :
          /\ hnef_is_inside(row + dd[1], col + dd[2])
          /\ LET adj_piece == board[row + dd[1]][col + dd[2]]
             IN ~(adj_piece = "." \/ hnef_get_player(adj_piece) = player
                  \/ adj_piece = "K")}}

\* the set of captured squares <<row, col>>
collect_captures(board, row, col, player) ==
    {<<row + d[1], col + d[2]>> : d \in
       {dd \in StraightDirs :
          /\ hnef_is_inside(row + dd[1], col + dd[2])
          /\ LET adj_piece == board[row + dd[1]][col + dd[2]]
             IN ~(adj_piece = "." \/ hnef_get_player(adj_piece) = player
                  \/ adj_piece = "K")
          /\ hnef_is_inside(row + 2 * dd[1], col + 2 * dd[2])
          /\ LET beyond_piece == board[row + 2 * dd[1]][col + 2 * dd[2]]
             IN beyond_piece # "." /\ hnef_get_player(beyond_piece) = player}}

apply_captures(board, captures) ==
    [r \in 0..(BOARD_SIZE - 1) |-> [c \in 0..(BOARD_SIZE - 1) |->
        IF <<r, c>> \in captures THEN "." ELSE board[r][c]]]

HnefSquares == (0..(BOARD_SIZE - 1)) \X (0..(BOARD_SIZE - 1))

\* None, or Some(<<row, col>>) of the first king in row-major order
hnef_find_king(board) ==
    LET found == {sq \in HnefSquares : board[sq[1]][sq[2]] = "K"}
    IN IF found = {} THEN None
       ELSE Some(CHOOSE sq \in found :
                    \A other \in found :
                       sq[1] < other[1] \/ (sq[1] = other[1] /\ sq[2] <= other[2]))

InsideNeighbors(row, col) ==
    {<<row + d[1], col + d[2]>> : d \in
       {dd \in StraightDirs : hnef_is_inside(row + dd[1], col + dd[2])}}

\* faulty variant: the king is captured by attackers on four sides only
is_king_captured_four_sides(board) ==
    LET king_pos == hnef_find_king(board)
        neighbors == InsideNeighbors(Get(king_pos)[1], Get(king_pos)[2])
    IN IF king_pos = None THEN TRUE
       ELSE Cardinality(neighbors) = 4 /\ \A n \in neighbors : board[n[1]][n[2]] = "A"

is_king_captured(board) ==
    LET king_pos == hnef_find_king(board)
        neighbors == InsideNeighbors(Get(king_pos)[1], Get(king_pos)[2])
    IN IF king_pos = None THEN TRUE
       ELSE neighbors # {} /\ \A n \in neighbors : board[n[1]][n[2]] = "A"

is_king_on_castle(board) == \E c \in CASTLES : board[c[1]][c[2]] = "K"

is_castle_blocked(board, castle) ==
    LET adjacent == InsideNeighbors(castle[1], castle[2])
    IN Cardinality(adjacent) = 2 /\ \A n \in adjacent : board[n[1]][n[2]] = "A"

\* faulty variant: the castles never count as blocked
all_castles_blocked_never(board) == FALSE

all_castles_blocked(board) == \A castle \in CASTLES : is_castle_blocked(board, castle)

hnef_is_legal_move(board, from_idx, to_idx, player) ==
    LET piece == board[from_idx.row][from_idx.col]
        moved == hnef_apply_move(board, from_idx, to_idx)
        clone == apply_captures(moved,
                    collect_captures(moved, to_idx.row, to_idx.col, player))
    IN IF hnef_get_player(piece) # player THEN FALSE
       ELSE IF ~path_clear(board, from_idx, to_idx, piece) THEN FALSE
       ELSE IF player = 2 /\ all_castles_blocked(clone) THEN FALSE
       ELSE TRUE

\* None, or Some(result)
hnef_check_for_game_end(board) ==
    IF is_king_on_castle(board)
    THEN Some([title |-> "Escape", message |-> "Winner: Player 1", winner |-> Some(1)])
    ELSE IF is_king_captured(board)
    THEN Some([title |-> "Capture", message |-> "Winner: Player 2", winner |-> Some(2)])
    ELSE None

-----------------------------------------------------------------------------
(* Request handlers.  A handler returns the response fields, the new value  *)
(* of the addressed GameState and whether it called save_state().           *)

\* f"P{player}: {from_square}-{to_square}"
MoveRecord(payload) ==
    [mover |-> payload.player, origin |-> payload.from_square,
     destination |-> payload.to_square]

\* expiry at the head of post_move
move_expiry(current, game_id, t) ==
    IF game_id = GAME_SEATS THEN expire_seats(current, t)
    ELSE [changed |-> FALSE, game |-> current]

\* faulty variant: any seated session may move for either player
seat_error_any_seat(current, game_id, session_id, payload) ==
    IF game_id # GAME_SEATS THEN ""
    ELSE IF seat_player_for_session(current, session_id) = None THEN "Seat required"
    ELSE ""

\* the seat checks of post_move: "" when the caller may move
seat_error(current, game_id, session_id, payload) ==
    IF game_id # GAME_SEATS THEN ""
    ELSE LET seat_player == seat_player_for_session(current, session_id)
         IN IF seat_player = None THEN "Seat required"
            ELSE IF Get(seat_player) # payload.player THEN "Seat mismatch"
            ELSE ""

\* faulty variant: the game_over check is missing
chess_move_error_no_game_over(current, game_id, session_id, payload) ==
    LET from_idx == chess_coord_to_index(lower(payload.from_square))
        to_idx == chess_coord_to_index(lower(payload.to_square))
        board == current.board
    IN IF payload.player \notin {1, 2} THEN "Invalid player"
       ELSE IF payload.player # current.current_player THEN "Not your turn"
       ELSE IF from_idx = None \/ to_idx = None THEN "Invalid coordinates"
       ELSE IF chess_get_player(board[Get(from_idx).row][Get(from_idx).col])
                  # payload.player
            THEN "Not your piece"
       ELSE IF seat_error(current, game_id, session_id, payload) # ""
            THEN seat_error(current, game_id, session_id, payload)
       ELSE IF ~chess_is_legal_move(board, Get(from_idx), Get(to_idx), payload.player)
            THEN "Illegal move"
       ELSE ""

\* the checks of chess post_move in order: the error, "" when the move is accepted
chess_move_error(current, game_id, session_id, payload) ==
    LET from_idx == chess_coord_to_index(lower(payload.from_square))
        to_idx == chess_coord_to_index(lower(payload.to_square))
        board == current.board
    IN IF current.game_over THEN "Game over"
       ELSE IF payload.player \notin {1, 2} THEN "Invalid player"
       ELSE IF payload.player # current.current_player THEN "Not your turn"
       ELSE IF from_idx = None \/ to_idx = None THEN "Invalid coordinates"
       ELSE IF chess_get_player(board[Get(from_idx).row][Get(from_idx).col])
                  # payload.player
            THEN "Not your piece"
       ELSE IF seat_error(current, game_id, session_id, payload) # ""
            THEN seat_error(current, game_id, session_id, payload)
       ELSE IF ~chess_is_legal_move(board, Get(from_idx), Get(to_idx), payload.player)
            THEN "Illegal move"
       ELSE ""

\* the seat of the mover gets last_active = now
touch_seat(current, game_id, player, t) ==
    IF game_id = GAME_SEATS /\ current.seats[SeatKeys[player]] # None
    THEN [current EXCEPT !.seats[SeatKeys[player]] =
             Some([Get(@) EXCEPT !.last_active = Some(t)])]
    ELSE current

\* faulty variant: the slice keeps the oldest records
truncate_history_keeps_oldest(history) ==
    IF Len(history) > MAX_HISTORY
    THEN SubSeq(history, 1, MAX_HISTORY)
    ELSE history

truncate_history(history) ==
    IF Len(history) > MAX_HISTORY
    THEN SubSeq(history, Len(history) - MAX_HISTORY + 1, Len(history))
    ELSE history

\* faulty variant: a draw raises total_games and no other counter
update_stats_draw_uncounted(stats, result) ==
    IF result = None THEN stats
    ELSE LET counted ==
                 IF Get(result).winner = Some(1) THEN [stats EXCEPT !.p1_wins = @ + 1]
                 ELSE IF Get(result).winner = Some(2) THEN [stats EXCEPT !.p2_wins = @ + 1]
                 ELSE stats
         IN [counted EXCEPT !.total_games = @ + 1]

update_stats(stats, result) ==
    IF result = None THEN stats
    ELSE LET counted ==
                 IF Get(result).winner = Some(1) THEN [stats EXCEPT !.p1_wins = @ + 1]
                 ELSE IF Get(result).winner = Some(2) THEN [stats EXCEPT !.p2_wins = @ + 1]
                 ELSE [stats EXCEPT !.draws = @ + 1]
         IN [counted EXCEPT !.total_games = @ + 1]

\* faulty variant: the turn is not handed over
record_move_keeps_turn(current, game_id, payload, board, result, t) ==
    LET touched == touch_seat(current, game_id, payload.player, t)
    IN [touched EXCEPT
          !.started_at = IF current.started_at = None THEN Some(t) ELSE @,
          !.last_played_at = Some(t),
          !.board = board,
          !.move_history = truncate_history(Append(@, MoveRecord(payload))),
          !.game_over = result # None,
          !.result = result,
          !.stats = update_stats(@, result),
          !.version = @ + 1]

\* the tail of post_move after the board was moved: timestamps, seat activity,
\* history, turn, result, stats, version
record_move(current, game_id, payload, board, result, t) ==
    LET touched == touch_seat(current, game_id, payload.player, t)
    IN [touched EXCEPT
          !.started_at = IF current.started_at = None THEN Some(t) ELSE @,
          !.last_played_at = Some(t),
          !.board = board,
          !.move_history = truncate_history(Append(@, MoveRecord(payload))),
          !.current_player = IF payload.player = 1 THEN 2 ELSE 1,
          !.game_over = result # None,
          !.result = result,
          !.stats = update_stats(@, result),
          !.version = @ + 1]

\* faulty variant: a rejection always raises the version
rejected_always_bumps(expiry, error) ==
    [ok |-> FALSE, error |-> error, game |-> bump(expiry.game), saved |-> TRUE]

\* the rejection paths of post_move: the error, and a version bump and a save
\* when expiry cleared a seat
rejected(expiry, error) ==
    [ok |-> FALSE, error |-> error,
     game |-> IF expiry.changed THEN bump(expiry.game) ELSE expiry.game,
     saved |-> expiry.changed]

chess_post_move(current, game_id, session_id, payload, t) ==
    LET expiry == move_expiry(current, game_id, t)
        cur == expiry.game
        error == chess_move_error(cur, game_id, session_id, payload)
        from_idx == Get(chess_coord_to_index(lower(payload.from_square)))
        to_idx == Get(chess_coord_to_index(lower(payload.to_square)))
        board == chess_apply_move(cur.board, from_idx, to_idx)
        next_player == IF payload.player = 1 THEN 2 ELSE 1
        result == chess_check_for_game_end(board, next_player)
    IN IF error # "" THEN rejected(expiry, error)
       ELSE [ok |-> TRUE, error |-> "",
             game |-> record_move(cur, game_id, payload, board, result, t),
             saved |-> TRUE]

\* the checks of hnefatafl post_move in order
hnef_move_error(current, game_id, session_id, payload) ==
    LET from_idx == hnef_coord_to_index(lower(payload.from_square))
        to_idx == hnef_coord_to_index(lower(payload.to_square))
        board == current.board
    IN IF current.game_over THEN "Game over"
       ELSE IF payload.player \notin {1, 2} THEN "Invalid player"
       ELSE IF payload.player # current.current_player THEN "Not your turn"
       ELSE IF from_idx = None \/ to_idx = None THEN "Invalid coordinates"
       ELSE IF hnef_get_player(board[Get(from_idx).row][Get(from_idx).col])
                  # payload.player
            THEN "Not your piece"
       ELSE IF seat_error(current, game_id, session_id, payload) # ""
            THEN seat_error(current, game_id, session_id, payload)
       ELSE IF ~hnef_is_legal_move(board, Get(from_idx), Get(to_idx), payload.player)
            THEN "Illegal move"
       ELSE ""

hnef_post_move(current, game_id, session_id, payload, t) ==
    LET expiry == move_expiry(current, game_id, t)
        cur == expiry.game
        error == hnef_move_error(cur, game_id, session_id, payload)
        from_idx == Get(hnef_coord_to_index(lower(payload.from_square)))
        to_idx == Get(hnef_coord_to_index(lower(payload.to_square)))
        moved == hnef_apply_move(cur.board, from_idx, to_idx)
        captures == collect_captures(moved, to_idx.row, to_idx.col, payload.player)
        board == apply_captures(moved, captures)
        result == hnef_check_for_game_end(board)
    IN IF error # "" THEN rejected(expiry, error)
       ELSE [ok |-> TRUE, error |-> "",
             game |-> record_move(cur, game_id, payload, board, result, t),
             saved |-> TRUE]

\* the checks of reset_game in order: "" when the reset goes ahead
reset_error(current, game_id, session_id, payload) ==
    IF payload.player \notin {1, 2} THEN "Invalid player"
    ELSE IF ~current.game_over THEN "Game still running"
    ELSE IF game_id = GAME_SEATS
            /\ seat_player_for_session(current, session_id) # Some(payload.player)
         THEN "Seat required"
    ELSE ""

\* faulty variant: the statistics start afresh
replacement_state_fresh_stats(current, game_id, default) ==
    LET with_seats == IF game_id = GAME_SEATS
                      THEN WithSeats(default, current.seats)
                      ELSE default
    IN [with_seats EXCEPT !.version = @ + 1]

\* faulty variant: the seats are emptied by the reset
replacement_state_empty_seats(current, game_id, default) ==
    LET with_stats == [default EXCEPT !.stats = current.stats]
        with_seats == IF game_id = GAME_SEATS
                      THEN WithSeats(with_stats, EmptySeats)
                      ELSE with_stats
    IN [with_seats EXCEPT !.version = @ + 1]

\* the replacement GameState: the default with stats and seats carried over
replacement_state(current, game_id, default) ==
    LET with_stats == [default EXCEPT !.stats = current.stats]
        with_seats == IF game_id = GAME_SEATS
                      THEN WithSeats(with_stats, current.seats)
                      ELSE with_stats
    IN [with_seats EXCEPT !.version = @ + 1]

chess_reset_game(current, game_id, session_id, payload) ==
    LET error == reset_error(current, game_id, session_id, payload)
    IN IF error # ""
       THEN [ok |-> FALSE, error |-> error, game |-> current, saved |-> FALSE]
       ELSE [ok |-> TRUE, error |-> "",
             game |-> replacement_state(current, game_id, default_game_state),
             saved |-> TRUE]

hnef_reset_game(current, game_id, session_id, payload, rand) ==
    LET error == reset_error(current, game_id, session_id, payload)
    IN IF error # ""
       THEN [ok |-> FALSE, error |-> error, game |-> current, saved |-> FALSE]
       ELSE [ok |-> TRUE, error |-> "",
             game |-> replacement_state(current, game_id,
                                        default_hnefatafl_game_state(rand)),
             saved |-> TRUE]

\* faulty variant: GetState clears expired seats without saving
get_state_without_save(current, game_id, session_id, t) ==
    LET expiry == move_expiry(current, game_id, t)
        game == IF expiry.changed THEN bump(expiry.game) ELSE expiry.game
    IN [game |-> game, saved |-> FALSE,
        state |-> with_meta(game_id, game, session_id, t)]

\* GET state: expiry on the seats board, then the snapshot
get_state(current, game_id, session_id, t) ==
    LET expiry == move_expiry(current, game_id, t)
        game == IF expiry.changed THEN bump(expiry.game) ELSE expiry.game
    IN [game |-> game, saved |-> expiry.changed,
        state |-> with_meta(game_id, game, session_id, t)]

\* POST seat: claim, bump the version, save
seat(game, session_id, t) ==
    LET seat_result == claim_seat(game, session_id, t)
        after == bump(seat_result.game)
    IN [ok |-> TRUE, player |-> seat_result.player, game |-> after, saved |-> TRUE,
        state |-> with_meta(GAME_SEATS, after, seat_result.session_id, t)]

post_move(game_name, current, game_id, session_id, payload, t) ==
    IF game_name = GAME_CHESS
    THEN chess_post_move(current, game_id, session_id, payload, t)
    ELSE hnef_post_move(current, game_id, session_id, payload, t)

reset_game(game_name, current, game_id, session_id, payload, rand) ==
    IF game_name = GAME_CHESS
    THEN chess_reset_game(current, game_id, session_id, payload)
    ELSE hnef_reset_game(current, game_id, session_id, payload, rand)

-----------------------------------------------------------------------------
(* Requests issued to the server *)

\* session ids carried by the signed cookie (get_session_id never returns "")
Sessions == {"s1", "s2", "s3"}

\* payload.player
PlayerInputs == {0, 1, 2}

\* the ?game= query values
QueryGames == {GAME_PUBLIC, GAME_SEATS}

Coord(file, rank) == <<file, rank>>

\* chess moves submitted: fool's mate (f2-f3 e7-e5 g2-g4 d8-h4) and, on the
\* public board, E2-e4 and a square off the board
FoolsMate ==
    { <<Coord("f","2"), Coord("f","3")>>,
      <<Coord("e","7"), Coord("e","5")>>,
      <<Coord("g","2"), Coord("g","4")>>,
      <<Coord("d","8"), Coord("h","4")>> }

ChessMoveInputs(game_id) ==
    IF game_id = GAME_SEATS THEN FoolsMate
    ELSE FoolsMate \cup { <<Coord("E","2"), Coord("e","4")>>,
                          <<Coord("e","9"), Coord("e","4")>> }

\* hnefatafl moves submitted: the defender d5 steps aside and the king steps
\* to d5 while an attacker shuttles f1-g1-f1; on the public board the king
\* walks on d5-d8-a8-a9 onto a castle, and a square off the board is tried
HnefOpening ==
    { <<Coord("d","5"), Coord("d","2")>>,
      <<Coord("e","5"), Coord("d","5")>>,
      <<Coord("f","1"), Coord("g","1")>>,
      <<Coord("g","1"), Coord("f","1")>> }

HnefMoveInputs(game_id) ==
    IF game_id = GAME_SEATS THEN HnefOpening
    ELSE HnefOpening \cup { <<Coord("d","5"), Coord("d","8")>>,
                            <<Coord("d","8"), Coord("a","8")>>,
                            <<Coord("a","8"), Coord("a","9")>>,
                            <<Coord("j","1"), Coord("a","1")>> }

MoveInputs(game_name, game_id) ==
    IF game_name = GAME_CHESS THEN ChessMoveInputs(game_id)
    ELSE HnefMoveInputs(game_id)

Payloads(game_name, game_id) ==
    {[player |-> p, from_square |-> m[1], to_square |-> m[2]] :
        p \in PlayerInputs, m \in MoveInputs(game_name, game_id)}

\* the values secrets.randbelow(2) can take in a reset of the game
ResetRands(game_name) == IF game_name = GAME_CHESS THEN {0} ELSE {0, 1}

ResetPayloads == {[player |-> p] : p \in PlayerInputs}

\* the four GameStates
Boards == GameNames \X GameIds

\* the requests of one run address one GameState: a request to a board is
\* issued only while every other board is still as constructed (version 0)
OnlyBoardInUse(game_name, game_id) ==
    \A b \in Boards \ {<<game_name, game_id>>} : store.games[b[1]][b[2]].version = 0

-----------------------------------------------------------------------------
(* The state machine *)

\* the file is missing at startup, so load_state() leaves default_state(); a run
\* addresses one board, so the two hnefatafl draws are taken equal
Init ==
    /\ \E rand \in {0, 1} : store = default_state(rand, rand)
    /\ disk = [live |-> None, tmp |-> None]
    /\ now = StartTime
    /\ lock = None /\ inflight = <<>> /\ delivered = None
    /\ buckets = <<>> /\ limiter_lock = None /\ requests = <<>> /\ calls = <<>>

\* faulty variant: the result is stored under both selectors of the game
Commit_both_ids(game_name, game_id, r) ==
    /\ store' = [store EXCEPT !.games[game_name] =
                    [id \in GameIds |-> r.game]]
    /\ disk' = IF r.saved THEN save_state(disk, store') ELSE disk
    /\ UNCHANGED <<limiter, now, threads>>

\* the store with the addressed GameState replaced, saved when the handler saves
Commit(game_name, game_id, r) ==
    /\ store' = [store EXCEPT !.games[game_name][game_id] = r.game]
    /\ disk' = IF r.saved THEN save_state(disk, store') ELSE disk
    /\ UNCHANGED <<limiter, now, threads>>

GetState(game_name, game, session_id) ==
    /\ OnlyBoardInUse(game_name, get_game_id(game))
    /\ Commit(game_name, get_game_id(game),
              get_state(get_game(get_game_id(game), game_name),
                        get_game_id(game), session_id, now))

ClaimSeat(game_name, session_id) ==
    /\ OnlyBoardInUse(game_name, GAME_SEATS)
    /\ get_game(GAME_SEATS, game_name).version < MaxClaimVersion
    /\ Commit(game_name, GAME_SEATS,
              seat(get_game(GAME_SEATS, game_name), session_id, now))

SubmitMove(game_name, game, session_id, payload) ==
    /\ OnlyBoardInUse(game_name, get_game_id(game))
    /\ \/ get_game(get_game_id(game), game_name).game_over
       \/ get_game(get_game_id(game), game_name).stats.total_games < MaxGames
    /\ Commit(game_name, get_game_id(game),
              post_move(game_name, get_game(get_game_id(game), game_name),
                        get_game_id(game), session_id, payload, now))

ResetGame(game_name, game, session_id, payload, rand) ==
    /\ OnlyBoardInUse(game_name, get_game_id(game))
    /\ Commit(game_name, get_game_id(game),
              reset_game(game_name, get_game(get_game_id(game), game_name),
                         get_game_id(game), session_id, payload, rand))

\* the clock readings at which requests arrive: process start, exactly the seat
\* timeout later, and one second after that
RequestTimes == {StartTime, StartTime + SEAT_TIMEOUT_SECONDS,
                 StartTime + SEAT_TIMEOUT_SECONDS + 1}

\* time passes between requests
Tick(t) ==
    /\ t > now
    /\ now' = t
    /\ UNCHANGED <<limiter, store, disk, threads>>

Next ==
    \/ \E t \in RequestTimes : Tick(t)
    \/ \E g \in GameNames, q \in QueryGames, sid \in Sessions : GetState(g, q, sid)
    \/ \E g \in GameNames, sid \in Sessions : ClaimSeat(g, sid)
    \/ \E g \in GameNames, q \in QueryGames, sid \in Sessions :
          \E payload \in Payloads(g, get_game_id(q)) : SubmitMove(g, q, sid, payload)
    \/ \E g \in GameNames, q \in QueryGames, sid \in Sessions :
          \E payload \in ResetPayloads, rand \in ResetRands(g) :
             ResetGame(g, q, sid, payload, rand)

Spec == Init /\ [][Next]_vars

-----------------------------------------------------------------------------
(* Vocabulary of the properties *)

Game(b) == store.games[b[1]][b[2]]

\* the boards a request can address in the current state
BoardsInUse == {b \in Boards : OnlyBoardInUse(b[1], b[2])}
SeatBoardsInUse == {b \in BoardsInUse : b[2] = GAME_SEATS}

\* every move request tried against a board of the game
MoveRequests(b) == Payloads(b[1], GAME_PUBLIC)

Other(player) == IF player = 1 THEN 2 ELSE 1

\* the time a seat's inactivity is measured from
SeatReference(s) == IF s.last_active # None THEN Get(s.last_active)
                    ELSE Get(s.assigned_at)

\* the seat of the side to move is occupied and inactive for more than the timeout
StaleAt(g, key, t) ==
    /\ key = SeatKeys[g.current_player]
    /\ g.seats[key] # None
    /\ t - SeatReference(Get(g.seats[key])) > SEAT_TIMEOUT_SECONDS

\* the seats once every stale seat is cleared
SeatsAfterExpiry(g, t) ==
    [key \in {"p1", "p2"} |-> IF StaleAt(g, key, t) THEN None ELSE g.seats[key]]

Holds(g, key, session_id) ==
    g.seats[key] # None /\ Get(g.seats[key]).session_id = session_id

RejectionReasons == {"Game over", "Invalid player", "Not your turn",
                     "Invalid coordinates", "Not your piece", "Seat required",
                     "Seat mismatch", "Illegal move"}

\* the fields a rejected move must leave alone
SameGameFields(g, h) ==
    /\ h.board = g.board
    /\ h.current_player = g.current_player
    /\ h.move_history = g.move_history
    /\ h.game_over = g.game_over
    /\ h.result = g.result
    /\ h.stats = g.stats
    /\ h.started_at = g.started_at
    /\ h.last_played_at = g.last_played_at

-----------------------------------------------------------------------------
(* C1 *)

\* C1: across any operation the version of a GameState never becomes smaller,
\* and it becomes strictly larger whenever the operation changed the GameState.
C1_VersionMonotonic ==
    [][\A b \in Boards :
          /\ store'.games[b[1]][b[2]].version >= Game(b).version
          /\ store'.games[b[1]][b[2]] # Game(b)
                => store'.games[b[1]][b[2]].version > Game(b).version]_vars

-----------------------------------------------------------------------------
(* C2 *)

E2E4 == [player |-> 1, from_square |-> Coord("e","2"), to_square |-> Coord("e","4")]

\* C2: an accepted move was made in a running game by the side to move; it
\* toggles the side to move, appends its record to the history (evicting the
\* oldest of 200) and raises the version by exactly 1; two consecutive records
\* of a history never have the same mover; e2-e4 as player 1 from the start
\* position puts a white pawn on row 4 column e and hands the turn to player 2.
C2_AcceptedMove ==
    /\ \A b \in BoardsInUse : \A sid \in Sessions : \A payload \in MoveRequests(b) :
          LET g == Game(b)
              r == post_move(b[1], g, b[2], sid, payload, now)
          IN r.ok =>
                /\ ~g.game_over
                /\ payload.player = g.current_player
                /\ r.game.current_player = Other(g.current_player)
                /\ r.game.move_history =
                      IF Len(g.move_history) < MAX_HISTORY
                      THEN Append(g.move_history, MoveRecord(payload))
                      ELSE Append(Tail(g.move_history), MoveRecord(payload))
                /\ r.game.version = g.version + 1
    /\ \A b \in Boards : \A i \in 1..(Len(Game(b).move_history) - 1) :
          Game(b).move_history[i].mover # Game(b).move_history[i + 1].mover
    /\ \A b \in BoardsInUse :
          (b = <<GAME_CHESS, GAME_PUBLIC>> /\ Game(b).board = default_game_state.board
             /\ Game(b).current_player = 1 /\ ~Game(b).game_over)
          => LET r == post_move(b[1], Game(b), b[2], "s1", E2E4, now)
             IN /\ r.ok
                /\ r.game.board[4][4] = "P"
                /\ r.game.board[6][4] = "."
                /\ r.game.current_player = 2
                /\ r.game.version = Game(b).version + 1

\* the public chess board after E2-e4 was accepted from the start position
C2_Witness ==
    LET g == Game(<<GAME_CHESS, GAME_PUBLIC>>)
    IN /\ Len(g.move_history) = 1
       /\ g.move_history[1].mover = 1
       /\ g.move_history[1].destination = Coord("e","4")
       /\ g.board[4][4] = "P"
       /\ g.current_player = 2
       /\ g.version = 1

-----------------------------------------------------------------------------
(* C3 *)

\* C3: a rejected move gives one of the eight reasons and leaves board, side to
\* move, history, game_over, result, stats and both timestamps unchanged; it
\* changes nothing at all, or it clears one occupied seat and raises the
\* version by 1.
C3_RejectedMoveFrame ==
    \A b \in BoardsInUse : \A sid \in Sessions : \A payload \in MoveRequests(b) :
       LET g == Game(b)
           r == post_move(b[1], g, b[2], sid, payload, now)
       IN ~r.ok =>
             /\ r.error \in RejectionReasons
             /\ SameGameFields(g, r.game)
             /\ \/ r.game = g /\ ~r.saved
                \/ /\ b[2] = GAME_SEATS
                   /\ r.saved
                   /\ \E key \in {"p1", "p2"} :
                         /\ StaleAt(g, key, now)
                         /\ r.game = [g EXCEPT !.seats[key] = None,
                                               !.version = @ + 1]

\* a move request that is rejected and clears a stale seat on the way
C3_Witness ==
    \E b \in SeatBoardsInUse : \E sid \in Sessions : \E payload \in MoveRequests(b) :
       LET r == post_move(b[1], Game(b), b[2], sid, payload, now)
       IN ~r.ok /\ r.game # Game(b) /\ Game(b).move_history # <<>>

-----------------------------------------------------------------------------
(* C4 *)

ResetRequests(b) ==
    {[payload |-> payload, rand |-> rand] :
        payload \in ResetPayloads, rand \in ResetRands(b[1])}

\* C4: on a seats board a move or a reset succeeds only for the session that
\* occupies the seat of the declared player; any other session changes neither
\* the board nor resets the game.  On a public board the outcome of a move or
\* a reset does not depend on the caller's session.
C4_SeatAuthorization ==
    /\ \A b \in SeatBoardsInUse : \A sid \in Sessions :
          /\ \A payload \in MoveRequests(b) :
                LET g == Game(b)
                    r == post_move(b[1], g, b[2], sid, payload, now)
                IN /\ r.ok => /\ payload.player \in {1, 2}
                              /\ Holds(g, SeatKeys[payload.player], sid)
                   /\ (payload.player \notin {1, 2}
                         \/ ~Holds(g, SeatKeys[payload.player], sid))
                      => r.game.board = g.board
          /\ \A q \in ResetRequests(b) :
                LET g == Game(b)
                    r == reset_game(b[1], g, b[2], sid, q.payload, q.rand)
                IN /\ r.ok => /\ q.payload.player \in {1, 2}
                              /\ Holds(g, SeatKeys[q.payload.player], sid)
                   /\ ~r.ok => r.game = g
    /\ \A b \in BoardsInUse \ SeatBoardsInUse : \A sid \in Sessions :
          /\ \A payload \in MoveRequests(b) :
                post_move(b[1], Game(b), b[2], sid, payload, now)
                   = post_move(b[1], Game(b), b[2], "s1", payload, now)
          /\ \A q \in ResetRequests(b) :
                reset_game(b[1], Game(b), b[2], sid, q.payload, q.rand)
                   = reset_game(b[1], Game(b), b[2], "s1", q.payload, q.rand)

\* a seats board on which the seated player 1 and the seated player 2 have
\* each had a move accepted
C4_Witness ==
    \E b \in SeatBoardsInUse :
       /\ Len(Game(b).move_history) >= 2
       /\ Game(b).seats.p1 # None /\ Game(b).seats.p2 # None
       /\ Get(Game(b).seats.p1).last_active # None
       /\ Get(Game(b).seats.p2).last_active # None

-----------------------------------------------------------------------------
(* C5 *)

\* C5: at any time t, expiry clears a seat exactly when the seat belongs to the
\* side to move, is occupied and has been inactive, since last_active or else
\* since assigned_at, for strictly more than 300 seconds; it reports a change
\* exactly when it cleared a seat and changes nothing else.
C5_ExpiryExactlyWhenStale ==
    \A b \in SeatBoardsInUse : \A t \in {u \in RequestTimes : u >= now} :
       LET g == Game(b)
           e == expire_seats(g, t)
       IN /\ \A key \in {"p1", "p2"} :
                (g.seats[key] # None /\ e.game.seats[key] = None)
                   <=> StaleAt(g, key, t)
          /\ e.game = [g EXCEPT !.seats = SeatsAfterExpiry(g, t)]
          /\ e.changed <=> (e.game # g)

\* both seats are occupied and inactive for more than 300 seconds: the seat of
\* the side to move is stale, the other one is not
C5_Witness ==
    \E b \in SeatBoardsInUse :
       LET g == Game(b)
       IN /\ g.seats.p1 # None /\ g.seats.p2 # None
          /\ now - SeatReference(Get(g.seats.p1)) > SEAT_TIMEOUT_SECONDS
          /\ now - SeatReference(Get(g.seats.p2)) > SEAT_TIMEOUT_SECONDS
          /\ expire_seats(g, now).game.seats[SeatKeys[g.current_player]] = None
          /\ expire_seats(g, now).game.seats[SeatKeys[Other(g.current_player)]] # None

-----------------------------------------------------------------------------
(* C6 *)

\* C6: expiry clears a seat only when its owner has been the side to move
\* continuously for more than 300 seconds, that is, when the last accepted move
\* (which handed the owner the turn) is more than 300 seconds old.
C6_ExpiryOnlyAfterTurnTimeout ==
    \A b \in SeatBoardsInUse : \A key \in {"p1", "p2"} :
       LET g == Game(b)
           e == expire_seats(g, now)
       IN (g.seats[key] # None /\ e.game.seats[key] = None /\ g.last_played_at # None)
             => now - Get(g.last_played_at) > SEAT_TIMEOUT_SECONDS

-----------------------------------------------------------------------------
(* C7 *)

-----------------------------------------------------------------------------
(* C8 *)

NewSeat(session_id, t) ==
    [session_id |-> session_id, assigned_at |-> Some(t), last_active |-> None]

\* what a claim by an unseated session must do to the seats it finds
ClaimOutcome(seats, r, session_id, t) ==
    IF seats.p1 = None
    THEN r.player = 1 /\ r.game.seats = [seats EXCEPT !.p1 = Some(NewSeat(session_id, t))]
    ELSE IF seats.p2 = None
    THEN r.player = 2 /\ r.game.seats = [seats EXCEPT !.p2 = Some(NewSeat(session_id, t))]
    ELSE r.player = 0 /\ r.game.seats = seats

\* C8 as stated: a claim by a session that holds no seat takes p1 when p1 is
\* free, else p2 when p2 is free, with assigned_at = now and last_active null;
\* with both slots occupied it returns 0 and changes no seat slot.
C8_ClaimFirstFreeSlot ==
    \A b \in SeatBoardsInUse : \A sid \in Sessions :
       LET g == Game(b)
       IN (~Holds(g, "p1", sid) /\ ~Holds(g, "p2", sid))
             => ClaimOutcome(g.seats, seat(g, sid, now), sid, now)

\* C8 amended: ClaimSeat first clears a stale seat of the side to move; a
\* session that then holds no seat takes p1 when p1 is free, else p2 when p2 is
\* free, with assigned_at = now and last_active null; with both slots still
\* occupied it returns 0 and changes no further seat slot.
C8_ClaimFirstFreeSlotAfterExpiry ==
    \A b \in SeatBoardsInUse : \A sid \in Sessions :
       LET g == Game(b)
           after == SeatsAfterExpiry(g, now)
       IN ~(\E key \in {"p1", "p2"} :
               after[key] # None /\ Get(after[key]).session_id = sid)
             => ClaimOutcome(after, seat(g, sid, now), sid, now)

\* seat 2 was assigned while seat 1 was taken, and a third session now finds
\* both slots occupied and none stale
C8_Witness ==
    \E b \in SeatBoardsInUse :
       LET g == Game(b)
       IN /\ g.seats.p1 # None /\ g.seats.p2 # None
          /\ Get(g.seats.p2).last_active = None
          /\ SeatsAfterExpiry(g, now) = g.seats
          /\ \E sid \in Sessions : seat(g, sid, now).player = 0

-----------------------------------------------------------------------------
(* C9 *)

\* the step is a successful reset of board b
SuccessfulReset(b) ==
    \E sid \in Sessions : \E q \in ResetRequests(b) :
       LET r == reset_game(b[1], Game(b), b[2], sid, q.payload, q.rand)
       IN r.ok /\ store'.games[b[1]][b[2]] = r.game

-----------------------------------------------------------------------------
(* C10 *)

\* C10 as stated: a reset with player 1 or 2 is refused with "Game still
\* running" and changes nothing while game_over is false, and succeeds with
\* stats.total_games preserved once game_over is true.
C10_ResetOnlyWhenEnded ==
    \A b \in BoardsInUse : \A sid \in Sessions : \A q \in ResetRequests(b) :
       LET g == Game(b)
           r == reset_game(b[1], g, b[2], sid, q.payload, q.rand)
       IN q.payload.player \in {1, 2} =>
             IF g.game_over
             THEN r.ok /\ r.game.stats.total_games = g.stats.total_games
             ELSE ~r.ok /\ r.error = "Game still running" /\ r.game = g

\* C10 amended: a reset with player 1 or 2 is refused with "Game still running"
\* and changes nothing while game_over is false; once game_over is true it
\* succeeds with stats.total_games preserved, except that on the seats selector
\* a caller who does not occupy the seat of the declared player is refused with
\* "Seat required" and changes nothing.
C10_ResetOnlyWhenEndedAndSeated ==
    \A b \in BoardsInUse : \A sid \in Sessions : \A q \in ResetRequests(b) :
       LET g == Game(b)
           r == reset_game(b[1], g, b[2], sid, q.payload, q.rand)
       IN q.payload.player \in {1, 2} =>
             IF ~g.game_over
             THEN ~r.ok /\ r.error = "Game still running" /\ r.game = g
             ELSE IF b[2] = GAME_SEATS /\ ~Holds(g, SeatKeys[q.payload.player], sid)
             THEN ~r.ok /\ r.error = "Seat required" /\ r.game = g
             ELSE /\ r.ok
                  /\ r.game.stats.total_games = g.stats.total_games
                  /\ ~r.game.game_over

\* a seats board that was reset after a finished game: the count of games is
\* kept, the game is running again from an empty history
C10_Witness ==
    \E b \in SeatBoardsInUse :
       /\ Game(b).stats.total_games = 1
       /\ ~Game(b).game_over
       /\ Game(b).move_history = <<>>
       /\ Game(b).seats.p1 # None

-----------------------------------------------------------------------------
(* C11 *)

\* the fixed initial layout of a game
InitialBoard(game_name) ==
    IF game_name = GAME_CHESS THEN default_game_state.board
    ELSE default_hnefatafl_game_state(0).board

\* C11: a successful reset puts the game's fixed initial layout on the board,
\* empties the history, sets game_over false and result null, and leaves the
\* stats and, on the seats selector, both seat slots as they were.
C11_ResetFrame ==
    \A b \in BoardsInUse : \A sid \in Sessions : \A q \in ResetRequests(b) :
       LET g == Game(b)
           r == reset_game(b[1], g, b[2], sid, q.payload, q.rand)
       IN r.ok =>
             /\ r.game.board = InitialBoard(b[1])
             /\ r.game.move_history = <<>>
             /\ ~r.game.game_over
             /\ r.game.result = None
             /\ r.game.stats = g.stats
             /\ b[2] = GAME_SEATS => r.game.seats = g.seats
             /\ b[2] # GAME_SEATS => "seats" \notin DOMAIN r.game

\* a seats board right after a reset: version 1, the initial layout, and both
\* seats still carrying the activity of the game that ended
C11_Witness ==
    \E b \in SeatBoardsInUse :
       LET g == Game(b)
       IN /\ g.version = 1 /\ g.stats.total_games = 1
          /\ g.board = InitialBoard(b[1])
          /\ g.seats.p1 # None /\ g.seats.p2 # None
          /\ Get(g.seats.p1).last_active # None
          /\ Get(g.seats.p2).last_active # None

-----------------------------------------------------------------------------
(* C16 *)

\* the draws of the default_state() built by load_state
LoadRands == {0, 1} \X {0, 1}

\* C16: whatever store the handlers have produced, save_state followed by
\* load_state does not raise and yields a store whose four GameStates equal the
\* ones saved, seats and stats included.
C16_SaveLoadRoundTrip ==
    \A rands \in LoadRands :
       LET saved == save_state(disk, store)
           l == load_state(saved.live, rands[1], rands[2])
       IN /\ saved.tmp = None
          /\ ~l.raised
          /\ dec_state(l.state) = store

\* the live file holds a finished game with both seats taken and one game
\* counted, and loading it gives the store back
C16_Witness ==
    /\ disk.live = Some(json_dumps(store))
    /\ \E b \in SeatBoardsInUse :
          /\ Game(b).stats.total_games = 1
          /\ Game(b).result # None
          /\ Game(b).seats.p1 # None /\ Game(b).seats.p2 # None
    /\ dec_state(load_state(disk.live, 1, 1).state) = store

-----------------------------------------------------------------------------
(* Startup on a persisted file.  The files are documents of the three       *)
(* shapes load_state accepts, written by the handlers or damaged in one     *)
(* leaf, and files that are missing, unreadable or not a JSON object.       *)

\* a chess seats GameState as the handlers leave it: s1 and s2 seated, one move
PlayedChessSeats ==
    LET claimed == seat(seat(default_state(0, 0).games[GAME_CHESS][GAME_SEATS],
                             "s1", StartTime).game, "s2", StartTime).game
    IN post_move(GAME_CHESS, claimed, GAME_SEATS, "s1",
                 [player |-> 1, from_square |-> Coord("f","2"),
                  to_square |-> Coord("f","3")], StartTime).game

\* a hnefatafl seats GameState with one seat claimed
PlayedHnefSeats ==
    seat(default_state(1, 1).games[GAME_HNEFATAFL][GAME_SEATS], "s2", StartTime).game

\* a seat as older versions wrote it: the session id under the key "token"
LegacySeat ==
    J_obj([token |-> J_str("s1"), assigned_at |-> J_int(StartTime),
           last_active |-> J_null])

EmptyObject == J_obj([k \in {} |-> J_null])

\* entries for a seats selector: as written, legacy, and damaged in one leaf
SeatsEntries(played) ==
    LET e == enc_game(played)
    IN { e,
         dict_set(e, "seats", J_obj([p1 |-> LegacySeat, p2 |-> J_null])),
         dict_set(e, "seats", J_obj([p1 |-> LegacySeat])),
         dict_set(e, "seats", J_null),
         dict_set(e, "seats", J_obj([p1 |-> J_str("s1"), p2 |-> J_null])),
         dict_set(e, "seats", J_obj([p1 |-> J_obj([assigned_at |-> J_int(StartTime)]),
                                     p2 |-> J_null])),
         dict_set(e, "board", J_int(5)),
         dict_set(e, "stats", J_obj([p1_wins |-> J_int(3)])),
         dict_set(e, "stats", J_null),
         EmptyObject,
         J_int(7) }

\* entries for a public selector
PublicEntries(game_name) ==
    LET e == enc_game(IF game_name = GAME_CHESS
                      THEN [default_game_state EXCEPT !.version = 3, !.current_player = 2]
                      ELSE [default_hnefatafl_game_state(1) EXCEPT !.version = 3])
    IN { e, dict_set(e, "version", J_str("3")), J_null }

\* {"games": {"chess": {...}, "hnefatafl": {...}}}
CurrentShape(chess_public, chess_seats, hnef_public, hnef_seats) ==
    J_obj([games |-> J_obj([g \in GameNames |->
        IF g = GAME_CHESS
        THEN J_obj([id \in GameIds |-> IF id = GAME_PUBLIC THEN chess_public
                                       ELSE chess_seats])
        ELSE J_obj([id \in GameIds |-> IF id = GAME_PUBLIC THEN hnef_public
                                       ELSE hnef_seats])])])

\* {"games": {"public": {...}, "seats": {...}}}: one chess game per selector
LegacyShape(public, seats) ==
    J_obj([games |-> J_obj([id \in GameIds |-> IF id = GAME_PUBLIC THEN public
                                               ELSE seats])])

JsonDocuments ==
    {CurrentShape(cp, cs, hp, hs) :
        cp \in {enc_game([default_game_state EXCEPT !.version = 3])},
        cs \in SeatsEntries(PlayedChessSeats),
        hp \in PublicEntries(GAME_HNEFATAFL),
        hs \in SeatsEntries(PlayedHnefSeats)}
    \cup {LegacyShape(p, s) : p \in PublicEntries(GAME_CHESS),
                              s \in SeatsEntries(PlayedChessSeats)}
    \cup {J_obj([games |-> J_obj([seats |-> s])]) :
             s \in SeatsEntries(PlayedChessSeats)}
    \cup {e \in SeatsEntries(PlayedChessSeats) \cup PublicEntries(GAME_CHESS) :
             is_dict(e) /\ "board" \in DOMAIN e[2]}
    \cup {J_obj([games |-> J_int(1)]), J_obj([games |-> J_obj([chess |-> J_int(1)])]),
          J_obj([other |-> J_int(1)]), EmptyObject, J_arr(<<>>), J_null}

\* what the live file can hold at startup; None when it does not exist
PersistedFiles ==
    {None, Some([k |-> "not_utf8"]), Some([k |-> "not_json"]),
     Some([k |-> "truncated"])}
    \cup {Some([k |-> "json", v |-> j]) : j \in JsonDocuments}

GameKeys(with_seats) ==
    {"board", "current_player", "move_history", "game_over", "result", "stats",
     "started_at", "last_played_at", "version"}
    \cup (IF with_seats THEN {"seats"} ELSE {})

IsOptInt(j) == j[1] \in {"null", "int"}

IsSeat(j) ==
    /\ is_dict(j)
    /\ DOMAIN j[2] = {"session_id", "assigned_at", "last_active"}
    /\ j[2].session_id[1] = "str"
    /\ IsOptInt(j[2].assigned_at) /\ IsOptInt(j[2].last_active)

IsSeats(j) ==
    /\ is_dict(j)
    /\ DOMAIN j[2] = {"p1", "p2"}
    /\ \A p \in {"p1", "p2"} : j[2][p][1] = "null" \/ IsSeat(j[2][p])

IsResult(j) ==
    \/ j[1] = "null"
    \/ /\ is_dict(j) /\ DOMAIN j[2] = {"title", "message", "winner"}
       /\ j[2].title[1] = "str" /\ j[2].message[1] = "str" /\ IsOptInt(j[2].winner)

\* the field has the type the handlers rely on
WellTyped(key, j) ==
    CASE key \in {"board", "move_history"} ->
            j[1] = "arr" /\ \A i \in 1..Len(j[2]) : j[2][i][1] = "str"
      [] key \in {"current_player", "version"} -> j[1] = "int"
      [] key = "game_over" -> j[1] = "bool"
      [] key = "result" -> IsResult(j)
      [] key = "stats" ->
            /\ is_dict(j) /\ DOMAIN j[2] = DOMAIN ZeroStats
            /\ \A k \in DOMAIN j[2] : j[2][k][1] = "int"
      [] key \in {"started_at", "last_played_at"} -> IsOptInt(j)
      [] key = "seats" -> IsSeats(j)

\* j is a GameState the handlers can work on
WellFormedGame(j, with_seats) ==
    /\ is_dict(j)
    /\ DOMAIN j[2] = GameKeys(with_seats)
    /\ \A k \in DOMAIN j[2] : WellTyped(k, j[2][k])

LoadedGame(l, b) == l.state[2].games[2][b[1]][2][b[2]]

\* the module is imported (STATE = default_state()) with some file on disk
InitLoad ==
    /\ \E rand \in {0, 1} : store = default_state(rand, rand)
    /\ \E file \in PersistedFiles : disk = [live |-> file, tmp |-> None]
    /\ now = StartTime
    /\ lock = None /\ inflight = <<>> /\ delivered = None
    /\ buckets = <<>> /\ limiter_lock = None /\ requests = <<>> /\ calls = <<>>

\* startup_event: load_state() under the lock.  The step is taken when
\* load_state returns a store of well-formed GameStates; its other outcomes
\* are read off load_state by the properties.
Startup(rand_public, rand_seats) ==
    LET l == load_state(disk.live, rand_public, rand_seats)
    IN /\ ~l.raised
       /\ \A b \in Boards : WellFormedGame(LoadedGame(l, b), b[2] = GAME_SEATS)
       /\ store' = dec_state(l.state)
       /\ UNCHANGED <<limiter, disk, now, threads>>

NextLoad == \E rand_public \in {0, 1}, rand_seats \in {0, 1} :
               Startup(rand_public, rand_seats)

SpecLoad == InitLoad /\ [][NextLoad]_vars

-----------------------------------------------------------------------------
(* C14 *)

\* C14: on any file load_state returns normally, and afterwards every
\* GameState is a well-formed GameState or, failing that, the default initial
\* structure.
C14_LoadNeverFails ==
    \A rands \in LoadRands :
       LET l == load_state(disk.live, rands[1], rands[2])
           fresh == enc_state(default_state(rands[1], rands[2]))
       IN /\ ~l.raised
          /\ \A b \in Boards :
                \/ WellFormedGame(LoadedGame(l, b), b[2] = GAME_SEATS)
                \/ LoadedGame(l, b) = fresh[2].games[2][b[1]][2][b[2]]

-----------------------------------------------------------------------------
(* C15 *)

\* C15: after load_state on any document both seats-selector GameStates have
\* a seats record with the slots p1 and p2, each null or a seat that carries
\* session_id and no token.
C15_SeatsNormalized ==
    \A rands \in LoadRands :
       LET l == load_state(disk.live, rands[1], rands[2])
       IN ~l.raised =>
             \A g \in GameNames :
                LET game == LoadedGame(l, <<g, GAME_SEATS>>)
                IN /\ "seats" \in DOMAIN game[2]
                   /\ is_dict(game[2]["seats"])
                   /\ DOMAIN game[2]["seats"][2] = {"p1", "p2"}
                   /\ \A p \in {"p1", "p2"} :
                         LET slot == game[2]["seats"][2][p]
                         IN \/ slot[1] = "null"
                            \/ /\ is_dict(slot)
                               /\ "session_id" \in DOMAIN slot[2]
                               /\ "token" \notin DOMAIN slot[2]

-----------------------------------------------------------------------------
(* Requests served by the thread pool.  A handler runs under state_lock up  *)
(* to its return; save_state inside it is three file operations, between    *)
(* any two of which the process can die.  The handler returns               *)
(* with_meta(...), a shallow copy dict(game): the copy holds the GameState's *)
(* move_history list, stats dict and seats dict themselves, and the         *)
(* framework serializes it after the handler has returned and released the  *)
(* lock.                                                                    *)

\* responses that can await serialization while another request is served
MaxInFlight == 1

ThreadSessions == {"s1", "s2"}

ThreadPayloads(game_name) ==
    {p \in Payloads(game_name, GAME_SEATS) : p.player \in {1, 2}}

ThreadResets == {[player |-> p] : p \in {1, 2}}

\* the dict a handler returns: the snapshot taken under the lock, and whether
\* its move_history is still the list the GameState holds (history is the
\* content of that list once the GameState holds another one)
Response(game_name, game_id, game, session_id) ==
    [board |-> <<game_name, game_id>>,
     snapshot |-> with_meta(game_id, game, session_id, now),
     history_live |-> TRUE,
     history |-> <<>>]

\* reset_game and the slice in post_move bind a new list to move_history; the
\* responses in flight keep the old list, whose final content is old_list
rebind_history(responses, board, rebinds, old_list) ==
    [i \in 1..Len(responses) |->
        IF rebinds /\ responses[i].board = board /\ responses[i].history_live
        THEN [responses[i] EXCEPT !.history_live = FALSE, !.history = old_list]
        ELSE responses[i]]

\* the body the framework writes for a response: the copied top-level values
\* and, through the shared objects, the current move_history, stats and seats
serialize(response) ==
    LET g == store.games[response.board[1]][response.board[2]]
        s == response.snapshot.state
    IN [response.snapshot EXCEPT !.state =
          [k \in DOMAIN s |->
              IF k = "move_history"
              THEN IF response.history_live THEN g.move_history
                   ELSE response.history
              ELSE IF k = "stats" THEN g.stats
              ELSE IF k = "seats" THEN g.seats
              ELSE s[k]]]

\* a handler takes the free lock, mutates the GameState and either returns at
\* once or starts save_state by opening the temporary file
Serve(game_name, game_id, session_id, r, rebinds, old_list) ==
    LET response == Response(game_name, game_id, r.game, session_id)
        kept == rebind_history(inflight, <<game_name, game_id>>, rebinds, old_list)
    IN /\ lock = None
       /\ Len(inflight) <= MaxInFlight
       /\ OnlyBoardInUse(game_name, game_id)
       /\ store' = [store EXCEPT !.games[game_name][game_id] = r.game]
       /\ IF r.saved
          THEN /\ lock' = Some([response |-> response, phase |-> "writing"])
               /\ inflight' = kept
               /\ disk' = write_text_begin(disk)
          ELSE /\ lock' = None
               /\ inflight' = Append(kept, response)
               /\ disk' = disk
       /\ UNCHANGED <<limiter, now, delivered>>

ServeGetState(game_name, game, session_id) ==
    Serve(game_name, get_game_id(game), session_id,
          get_state(get_game(get_game_id(game), game_name), get_game_id(game),
                    session_id, now),
          FALSE, <<>>)

ServeClaimSeat(game_name, session_id) ==
    /\ get_game(GAME_SEATS, game_name).version < MaxClaimVersion
    /\ Serve(game_name, GAME_SEATS, session_id,
             seat(get_game(GAME_SEATS, game_name), session_id, now), FALSE, <<>>)

ServeSubmitMove(game_name, game, session_id, payload) ==
    LET current == get_game(get_game_id(game), game_name)
        r == post_move(game_name, current, get_game_id(game), session_id,
                       payload, now)
    IN /\ current.game_over \/ current.stats.total_games < MaxGames
       /\ Serve(game_name, get_game_id(game), session_id, r,
                r.ok /\ Len(current.move_history) >= MAX_HISTORY,
                Append(current.move_history, MoveRecord(payload)))

ServeResetGame(game_name, game, session_id, payload, rand) ==
    LET current == get_game(get_game_id(game), game_name)
        r == reset_game(game_name, current, get_game_id(game), session_id,
                        payload, rand)
    IN Serve(game_name, get_game_id(game), session_id, r, r.ok,
             current.move_history)

\* Path.write_text writes the payload and closes the temporary file
SaveWrite ==
    /\ lock # None /\ Get(lock).phase = "writing"
    /\ disk' = write_text(disk, json_dumps(store))
    /\ lock' = Some([Get(lock) EXCEPT !.phase = "written"])
    /\ UNCHANGED <<limiter, store, now, inflight, delivered>>

\* os.replace commits the save; the handler returns and releases the lock
SaveReplace ==
    /\ lock # None /\ Get(lock).phase = "written"
    /\ disk' = os_replace(disk)
    /\ lock' = None
    /\ inflight' = Append(inflight, Get(lock).response)
    /\ UNCHANGED <<limiter, store, now, delivered>>

\* the framework serializes a returned response and sends it
Serialize(i) ==
    /\ delivered' = Some([body |-> serialize(inflight[i]),
                          at_return |-> inflight[i].snapshot])
    /\ inflight' = [j \in 1..(Len(inflight) - 1) |->
                       IF j < i THEN inflight[j] ELSE inflight[j + 1]]
    /\ UNCHANGED <<limiter, store, disk, now, lock>>

\* the process dies and is started again: memory is lost, the files stay, and
\* startup loads the live file
Crash(rand) ==
    LET l == load_state(disk.live, rand, rand)
    IN /\ ~l.raised
       /\ store' = dec_state(l.state)
       /\ lock' = None /\ inflight' = <<>> /\ delivered' = None
       /\ buckets' = <<>> /\ limiter_lock' = None
       /\ UNCHANGED <<disk, now, requests, calls>>

NextThreads ==
    \/ \E g \in GameNames, q \in QueryGames, sid \in ThreadSessions :
          ServeGetState(g, q, sid)
    \/ \E g \in GameNames, sid \in ThreadSessions : ServeClaimSeat(g, sid)
    \/ \E g \in GameNames, q \in QueryGames, sid \in ThreadSessions :
          \E payload \in ThreadPayloads(g) : ServeSubmitMove(g, q, sid, payload)
    \/ \E g \in GameNames, q \in QueryGames, sid \in ThreadSessions :
          \E payload \in ThreadResets, rand \in ResetRands(g) :
             ServeResetGame(g, q, sid, payload, rand)
    \/ SaveWrite
    \/ SaveReplace
    \/ \E i \in 1..Len(inflight) : Serialize(i)
    \/ \E rand \in {0, 1} : Crash(rand)

SpecThreads == Init /\ [][NextThreads]_vars


\* C12: every response is a snapshot of its GameState at one point of the
\* serial order of the handlers: the body sent to the client is the state
\* with_meta copied when the handler returned under the lock, never a mix of
\* that state and a later one.
C12_ResponseIsOneSnapshot ==
    delivered # None => Get(delivered).body = Get(delivered).at_return


\* a complete snapshot: a JSON document that reads back as the store it encodes
CompleteSnapshot(file) ==
    /\ file.k = "json"
    /\ json_dumps(dec_state(file.v)) = file

\* C13: the live file is at every instant absent or a complete snapshot; it
\* changes only at the rename, and then to the complete snapshot of the store
\* of the handler that holds the lock; a save starts only when no other save
\* is in progress; and a process that dies during a save, also between the
\* write of the temporary file and the rename, restarts with the live file
\* unchanged and with the store of the last committed snapshot.
C13_AtomicSave ==
    /\ [](disk.live # None => CompleteSnapshot(Get(disk.live)))
    /\ [][/\ disk'.live # disk.live =>
                /\ lock # None /\ Get(lock).phase = "written"
                /\ disk'.live = Some(json_dumps(store))
          /\ disk'.tmp = Some([k |-> "truncated"]) /\ disk'.tmp # disk.tmp =>
                lock = None
          /\ lock # None /\ lock' = None /\ disk'.tmp # None =>
                /\ disk' = disk
                /\ disk.live # None => json_dumps(store') = Get(disk.live)]_vars

\* the process died between the write of the temporary file and the rename:
\* the complete temporary file was never renamed, and the restarted store is
\* the one of the live file
C13_Witness ==
    /\ lock = None
    /\ disk.tmp # None /\ disk.live # None
    /\ Get(disk.tmp).k = "json"
    /\ disk.tmp # disk.live
    /\ json_dumps(store) = Get(disk.live)

-----------------------------------------------------------------------------
(* Requests to all four boards in one run: the same handlers, addressed to  *)
(* any board at any time, at one clock reading.                             *)

BoardSessions == {"s1", "s2"}

\* the moves submitted, each by either player: fool's mate on the public
\* chess board, the first move of the line on the other boards
BoardPayloads(b) ==
    {[player |-> p, from_square |-> m[1], to_square |-> m[2]] :
        p \in {1, 2},
        m \in IF b = <<GAME_CHESS, GAME_PUBLIC>> THEN FoolsMate
              ELSE IF b[1] = GAME_CHESS
              THEN {<<Coord("f","2"), Coord("f","3")>>}
              ELSE {<<Coord("d","5"), Coord("d","2")>>}}

BoardResets == {[player |-> 1]}

\* the results of the requests that can be addressed to one board
GetStateResults(b, sid) ==
    {get_state(get_game(b[2], b[1]), b[2], sid, now)}

ClaimSeatResults(b, sid) ==
    IF b[2] = GAME_SEATS /\ get_game(b[2], b[1]).version < MaxClaimVersion
    THEN {seat(get_game(b[2], b[1]), sid, now)}
    ELSE {}

SubmitMoveResults(b, sid) ==
    IF \/ get_game(b[2], b[1]).game_over
       \/ get_game(b[2], b[1]).stats.total_games < MaxGames
    THEN {post_move(b[1], get_game(b[2], b[1]), b[2], sid, payload, now) :
             payload \in BoardPayloads(b)}
    ELSE {}

ResetGameResults(b, sid) ==
    {reset_game(b[1], get_game(b[2], b[1]), b[2], sid, payload, rand) :
        payload \in BoardResets, rand \in ResetRands(b[1])}

BoardGetState(b, sid) ==
    \E r \in GetStateResults(b, sid) : Commit(b[1], b[2], r)

BoardClaimSeat(b, sid) ==
    \E r \in ClaimSeatResults(b, sid) : Commit(b[1], b[2], r)

BoardSubmitMove(b, sid) ==
    \E r \in SubmitMoveResults(b, sid) : Commit(b[1], b[2], r)

BoardResetGame(b, sid) ==
    \E r \in ResetGameResults(b, sid) : Commit(b[1], b[2], r)

NextBoards ==
    \/ \E b \in Boards, sid \in BoardSessions : BoardGetState(b, sid)
    \/ \E b \in Boards, sid \in BoardSessions : BoardClaimSeat(b, sid)
    \/ \E b \in Boards, sid \in BoardSessions : BoardSubmitMove(b, sid)
    \/ \E b \in Boards, sid \in BoardSessions : BoardResetGame(b, sid)

SpecBoards == Init /\ [][NextBoards]_vars

\* C17: the four GameStates are independent: a request addressed to one of
\* them moves that GameState to a result of its handler on that GameState
\* alone and leaves the other three unchanged in every field.
C17_BoardsIndependent ==
    [][\E b \in Boards, sid \in BoardSessions :
          /\ \E r \in GetStateResults(b, sid) \cup ClaimSeatResults(b, sid)
                      \cup SubmitMoveResults(b, sid) \cup ResetGameResults(b, sid) :
                store'.games[b[1]][b[2]] = r.game
          /\ \A c \in Boards \ {b} :
                store'.games[c[1]][c[2]] = store.games[c[1]][c[2]]]_vars

\* the four boards have all been played on, and differently
C17_Witness ==
    /\ \A b \in Boards : store.games[b[1]][b[2]].version > 0
    /\ store.games[GAME_CHESS][GAME_PUBLIC].version
          # store.games[GAME_CHESS][GAME_SEATS].version
    /\ store.games[GAME_CHESS][GAME_PUBLIC].game_over
    /\ ~store.games[GAME_HNEFATAFL][GAME_PUBLIC].game_over

-----------------------------------------------------------------------------
(* A long game on a public board: no rule ends a game by repetition, so     *)
(* pieces stepping out and back keep a game going past MAX_HISTORY moves.   *)

\* moves played before and after the history is full
LongGameMargin == 4

\* chess: the king's knights step out and back (g1-f3 g8-f6 f3-g1 f6-g8);
\* hnefatafl: the defender d5 and the attacker f1 step aside and back
ShuttleLine(game_name) ==
    IF game_name = GAME_CHESS
    THEN << <<Coord("g","1"), Coord("f","3")>>, <<Coord("g","8"), Coord("f","6")>>,
            <<Coord("f","3"), Coord("g","1")>>, <<Coord("f","6"), Coord("g","8")>> >>
    ELSE << <<Coord("d","5"), Coord("d","2")>>, <<Coord("f","1"), Coord("g","1")>>,
            <<Coord("d","2"), Coord("d","5")>>, <<Coord("g","1"), Coord("f","1")>> >>

\* the GameState after moves first..last of the line, each submitted to
\* post_move by the player to move
RECURSIVE play(_, _, _, _)
play(game_name, game, first, last) ==
    IF first > last THEN game
    ELSE IF first = last
    THEN LET m == ShuttleLine(game_name)[((first - 1) % Len(ShuttleLine(game_name))) + 1]
         IN post_move(game_name, game, GAME_PUBLIC, "s1",
                      [player |-> game.current_player,
                       from_square |-> m[1], to_square |-> m[2]],
                      StartTime).game
    ELSE LET middle == (first + last) \div 2
         IN play(game_name, play(game_name, game, first, middle), middle + 1, last)

\* one round of the line brings every piece back, so after n moves of the
\* line the game is its first n % Len(line) moves played on a GameState that
\* differs from a new one in its timestamps, its version and its history
rounds_played(game_name, game, n) ==
    LET line == ShuttleLine(game_name)
        whole == n - (n % Len(line))
    IN IF whole = 0 THEN game
       ELSE [game EXCEPT
               !.started_at = Some(StartTime),
               !.last_played_at = Some(StartTime),
               !.version = whole,
               !.move_history =
                   [i \in 1..whole |->
                       MoveRecord([player |-> IF i % 2 = 1 THEN game.current_player
                                              ELSE Other(game.current_player),
                                   from_square |-> line[((i - 1) % Len(line)) + 1][1],
                                   to_square |-> line[((i - 1) % Len(line)) + 1][2]])]]

long_game(game_name, game, n) ==
    play(game_name, rounds_played(game_name, game, n),
         n - (n % Len(ShuttleLine(game_name))) + 1, n)

\* the moves submitted in the long game: the line, and in chess the queen's
\* knights stepping out and back as well
LongGameMoves(game_name) ==
    {ShuttleLine(game_name)[i] : i \in 1..Len(ShuttleLine(game_name))}
    \cup IF game_name = GAME_CHESS
         THEN { <<Coord("b","1"), Coord("c","3")>>, <<Coord("c","3"), Coord("b","1")>>,
                <<Coord("b","8"), Coord("c","6")>>, <<Coord("c","6"), Coord("b","8")>> }
         ELSE { <<Coord("d","1"), Coord("c","1")>>, <<Coord("c","1"), Coord("d","1")>>,
                <<Coord("e","3"), Coord("b","3")>>, <<Coord("b","3"), Coord("e","3")>> }

LongGamePayloads(game_name) ==
    {[player |-> p, from_square |-> m[1], to_square |-> m[2]] :
        p \in {1, 2}, m \in LongGameMoves(game_name)}

\* one public board has been played for MAX_HISTORY - LongGameMargin moves
InitLong ==
    /\ \E game_name \in GameNames :
          LET fresh == default_state(0, 0)
              played == long_game(game_name, fresh.games[game_name][GAME_PUBLIC],
                                  MAX_HISTORY - LongGameMargin)
          IN store = [fresh EXCEPT !.games[game_name][GAME_PUBLIC] = played]
    /\ disk = save_state([live |-> None, tmp |-> None], store)
    /\ now = StartTime
    /\ lock = None /\ inflight = <<>> /\ delivered = None
    /\ buckets = <<>> /\ limiter_lock = None /\ requests = <<>> /\ calls = <<>>

LongSubmitMove(game_name, session_id, payload) ==
    /\ get_game(GAME_PUBLIC, game_name).version > 0
    /\ get_game(GAME_PUBLIC, game_name).version < MAX_HISTORY + LongGameMargin
    /\ Commit(game_name, GAME_PUBLIC,
              post_move(game_name, get_game(GAME_PUBLIC, game_name), GAME_PUBLIC,
                        session_id, payload, now))

NextLong ==
    \E g \in GameNames, sid \in {"s1", "s2"} :
        \E payload \in LongGamePayloads(g) : LongSubmitMove(g, sid, payload)

SpecLong == InitLong /\ [][NextLong]_vars

\* C18: in every reachable GameState move_history holds at most 200 records,
\* and an accepted move on a full history evicts the oldest record: the other
\* records keep their order and the record of the new move is last.
C18_HistoryBounded ==
    /\ [](\A b \in Boards : Len(store.games[b[1]][b[2]].move_history) <= MAX_HISTORY)
    /\ [][\A b \in Boards :
             LET g == store.games[b[1]][b[2]]
                 h == store'.games[b[1]][b[2]]
             IN (Len(g.move_history) = MAX_HISTORY /\ h.version = g.version + 1) =>
                   /\ Len(h.move_history) = MAX_HISTORY
                   /\ SubSeq(h.move_history, 1, MAX_HISTORY - 1) = Tail(g.move_history)
                   /\ \E payload \in LongGamePayloads(b[1]) :
                         /\ payload.player = g.current_player
                         /\ h.move_history[MAX_HISTORY] = MoveRecord(payload)]_vars

\* a history from which records have been evicted: the game has had more
\* moves than the history holds, and the oldest kept record is not its first
C18_Witness ==
    \E b \in Boards :
        LET g == store.games[b[1]][b[2]]
        IN /\ g.version > MAX_HISTORY + 1
           /\ Len(g.move_history) = MAX_HISTORY
           /\ ~g.game_over
           /\ g.move_history[1].origin # ShuttleLine(b[1])[1][1]

-----------------------------------------------------------------------------
(* Chess games played from the start position on the public board: the      *)
(* shortest checkmate and the shortest stalemate, and the games that mix    *)
(* their moves.                                                             *)

\* games played to their end in one run
MaxBookGames == 2

\* 1.e3 a5 2.Qh5 Ra6 3.Qxa5 h5 4.h4 Rah6 5.Qxc7 f6 6.Qxd7+ Kf7 7.Qxb7 Qd3
\* 8.Qxb8 Qh7 9.Qxc8 Kg6 10.Qe6 and Black, not in check, has no move
StalemateLine ==
    << <<Coord("e","2"), Coord("e","3")>>, <<Coord("a","7"), Coord("a","5")>>,
       <<Coord("d","1"), Coord("h","5")>>, <<Coord("a","8"), Coord("a","6")>>,
       <<Coord("h","5"), Coord("a","5")>>, <<Coord("h","7"), Coord("h","5")>>,
       <<Coord("h","2"), Coord("h","4")>>, <<Coord("a","6"), Coord("h","6")>>,
       <<Coord("a","5"), Coord("c","7")>>, <<Coord("f","7"), Coord("f","6")>>,
       <<Coord("c","7"), Coord("d","7")>>, <<Coord("e","8"), Coord("f","7")>>,
       <<Coord("d","7"), Coord("b","7")>>, <<Coord("d","8"), Coord("d","3")>>,
       <<Coord("b","7"), Coord("b","8")>>, <<Coord("d","3"), Coord("h","7")>>,
       <<Coord("b","8"), Coord("c","8")>>, <<Coord("f","7"), Coord("g","6")>>,
       <<Coord("c","8"), Coord("e","6")>> >>

\* 1.f3 e5 2.g4 Qh4 mate
CheckmateLine ==
    << <<Coord("f","2"), Coord("f","3")>>, <<Coord("e","7"), Coord("e","5")>>,
       <<Coord("g","2"), Coord("g","4")>>, <<Coord("d","8"), Coord("h","4")>> >>

\* the moves submitted as move number ply of a game
BookMoves(ply) ==
    (IF ply <= Len(StalemateLine) THEN {StalemateLine[ply]} ELSE {})
    \cup (IF ply <= Len(CheckmateLine) THEN {CheckmateLine[ply]} ELSE {})

BookPayloads(ply) ==
    {[player |-> p, from_square |-> m[1], to_square |-> m[2]] :
        p \in {1, 2}, m \in BookMoves(ply)}

ChessGame == store.games[GAME_CHESS][GAME_PUBLIC]

BookSubmitMove(session_id, payload) ==
    Commit(GAME_CHESS, GAME_PUBLIC,
           post_move(GAME_CHESS, ChessGame, GAME_PUBLIC, session_id, payload, now))

BookResetGame(session_id, payload) ==
    /\ ChessGame.stats.total_games < MaxBookGames
    /\ Commit(GAME_CHESS, GAME_PUBLIC,
              reset_game(GAME_CHESS, ChessGame, GAME_PUBLIC, session_id, payload, 0))

NextBook ==
    \/ \E payload \in BookPayloads(Len(ChessGame.move_history) + 1) :
          BookSubmitMove("s1", payload)
    \/ \E payload \in ThreadResets : BookResetGame("s1", payload)

SpecBook == Init /\ [][NextBook]_vars

\* every pair of squares, as a move request of either player
RankChars == <<"1", "2", "3", "4", "5", "6", "7", "8">>

AllCoords == {Coord(CHESS_FILES[c], RankChars[r]) : c \in 1..8, r \in 1..8}

AllMoveRequests ==
    {[player |-> p, from_square |-> f, to_square |-> t] :
        p \in {1, 2}, f \in AllCoords, t \in AllCoords}

\* the opponent of the player has a piece that can move onto the player's king
KingCapturable(board, player) ==
    LET king == chess_find_king(board, player)
    IN /\ king # None
       /\ \E sq \in ChessSquares :
             /\ board[sq[1]][sq[2]] # "."
             /\ chess_get_player(board[sq[1]][sq[2]]) = Other(player)
             /\ Get(king) \in get_pseudo_moves(board, sq[1], sq[2], board[sq[1]][sq[2]])

BothKings(board) ==
    chess_find_king(board, 1) # None /\ chess_find_king(board, 2) # None

\* C19: in every reachable chess position both kings are on the board, the
\* king of the side that has just moved cannot be captured, no move of
\* get_legal_moves leaves the mover's king where an opposing piece can move
\* onto it, and no move request that post_move accepts does.
C19_NoSelfCheck ==
    LET g == ChessGame
    IN /\ BothKings(g.board)
       /\ g.move_history # <<>> => ~KingCapturable(g.board, Other(g.current_player))
       /\ \A m \in get_legal_moves(g.board, g.current_player) :
             ~KingCapturable(chess_apply_move(g.board, m.from, m.to), g.current_player)
       /\ \A payload \in AllMoveRequests :
             LET r == post_move(GAME_CHESS, g, GAME_PUBLIC, "s1", payload, now)
             IN r.ok => /\ BothKings(r.game.board)
                        /\ ~KingCapturable(r.game.board, payload.player)

\* the side to move is in check in a game that goes on, and a piece of it
\* has a pseudo-move that get_legal_moves drops
C19_Witness ==
    LET g == ChessGame
    IN /\ ~g.game_over
       /\ KingCapturable(g.board, g.current_player)
       /\ \E sq \in ChessSquares :
             /\ chess_get_player(g.board[sq[1]][sq[2]]) = g.current_player
             /\ \E t \in get_pseudo_moves(g.board, sq[1], sq[2], g.board[sq[1]][sq[2]]) :
                   ~LegalMove(g.board, g.current_player,
                              [row |-> sq[1], col |-> sq[2]], t)
       /\ get_legal_moves(g.board, g.current_player) # {}

Checkmate(winner) ==
    Some([title |-> "Checkmate",
          message |-> IF winner = 1 THEN "Winner: Player 1" ELSE "Winner: Player 2",
          winner |-> Some(winner)])

Stalemate == Some([title |-> "Draw", message |-> "Stalemate", winner |-> None])

\* C20: after each accepted chess move the game is over exactly when the new
\* side to move has no legal move; it is then a Checkmate won by the mover
\* when that side's king can be captured and a Draw by stalemate with no
\* winner otherwise; and f2-f3, e7-e5, g2-g4, d8-h4 from the start position
\* ends with Checkmate won by player 2.
C20_GameEnd ==
    LET g == ChessGame
    IN /\ \A payload \in AllMoveRequests :
             LET r == post_move(GAME_CHESS, g, GAME_PUBLIC, "s1", payload, now)
                 h == r.game
                 stuck == get_legal_moves(h.board, h.current_player) = {}
             IN r.ok =>
                  /\ h.current_player = Other(payload.player)
                  /\ h.game_over <=> stuck
                  /\ h.result =
                        IF ~stuck THEN None
                        ELSE IF KingCapturable(h.board, h.current_player)
                        THEN Checkmate(payload.player)
                        ELSE Stalemate
       /\ g.move_history # <<>> =>
             (g.game_over <=> get_legal_moves(g.board, g.current_player) = {})
       /\ g.move_history =
             [i \in 1..Len(CheckmateLine) |->
                 MoveRecord([player |-> IF i % 2 = 1 THEN 1 ELSE 2,
                             from_square |-> CheckmateLine[i][1],
                             to_square |-> CheckmateLine[i][2]])]
          => g.game_over /\ g.result = Checkmate(2)

\* a game has ended in stalemate after an earlier game of the run ended in
\* checkmate won by player 2
C20_Witness ==
    LET g == ChessGame
    IN /\ g.game_over /\ g.result = Stalemate
       /\ ~KingCapturable(g.board, g.current_player)
       /\ g.stats.p2_wins = 1 /\ g.stats.draws = 1

-----------------------------------------------------------------------------
(* Chess games in which a pawn reaches the last rank.                       *)

\* 1.h4 g5 2.hxg5 h6 3.gxh6 a6 4.h7 a5 5.hxg8 a4, the same with 3...b6 4...b5
\* 5...b4, and 1.a3 h5 2.g4 hxg4 3.h3 gxh3 4.a4 h2 5.a5 hxg1 6.a6
PromotionLines ==
    { << <<Coord("h","2"), Coord("h","4")>>, <<Coord("g","7"), Coord("g","5")>>,
         <<Coord("h","4"), Coord("g","5")>>, <<Coord("h","7"), Coord("h","6")>>,
         <<Coord("g","5"), Coord("h","6")>>, <<Coord("b","7"), Coord("b","6")>>,
         <<Coord("h","6"), Coord("h","7")>>, <<Coord("b","6"), Coord("b","5")>>,
         <<Coord("h","7"), Coord("g","8")>>, <<Coord("b","5"), Coord("b","4")>> >> } \cup
    { << <<Coord("h","2"), Coord("h","4")>>, <<Coord("g","7"), Coord("g","5")>>,
         <<Coord("h","4"), Coord("g","5")>>, <<Coord("h","7"), Coord("h","6")>>,
         <<Coord("g","5"), Coord("h","6")>>, <<Coord("a","7"), Coord("a","6")>>,
         <<Coord("h","6"), Coord("h","7")>>, <<Coord("a","6"), Coord("a","5")>>,
         <<Coord("h","7"), Coord("g","8")>>, <<Coord("a","5"), Coord("a","4")>> >>,
      << <<Coord("a","2"), Coord("a","3")>>, <<Coord("h","7"), Coord("h","5")>>,
         <<Coord("g","2"), Coord("g","4")>>, <<Coord("h","5"), Coord("g","4")>>,
         <<Coord("h","2"), Coord("h","3")>>, <<Coord("g","4"), Coord("h","3")>>,
         <<Coord("a","3"), Coord("a","4")>>, <<Coord("h","3"), Coord("h","2")>>,
         <<Coord("a","4"), Coord("a","5")>>, <<Coord("h","2"), Coord("g","1")>>,
         <<Coord("a","5"), Coord("a","6")>> >> }

PromotionPayloads(ply) ==
    {[player |-> p, from_square |-> line[ply][1], to_square |-> line[ply][2]] :
        p \in {1, 2}, line \in {l \in PromotionLines : ply <= Len(l)}}

NextPromotion ==
    \E payload \in PromotionPayloads(Len(ChessGame.move_history) + 1) :
        BookSubmitMove("s1", payload)

SpecPromotion == Init /\ [][NextPromotion]_vars

\* C21: no pawn stands on row 0 or row 7 of a reachable chess board, and an
\* accepted move of a pawn onto one of these rows leaves a queen of the
\* mover's side on the landing square.
C21_PawnPromoted ==
    /\ \A b \in {GAME_PUBLIC, GAME_SEATS} : \A col \in 0..7 : \A row \in {0, 7} :
          LowerChar(store.games[GAME_CHESS][b].board[row][col]) # "p"
    /\ \A payload \in AllMoveRequests :
          LET g == ChessGame
              r == post_move(GAME_CHESS, g, GAME_PUBLIC, "s1", payload, now)
              from_idx == Get(chess_coord_to_index(payload.from_square))
              to_idx == Get(chess_coord_to_index(payload.to_square))
          IN (r.ok /\ LowerChar(g.board[from_idx.row][from_idx.col]) = "p"
                   /\ to_idx.row \in {0, 7})
             => r.game.board[to_idx.row][to_idx.col] =
                   IF payload.player = 1 THEN "Q" ELSE "q"

\* a pawn has just been promoted: the last accepted move took a pawn of the
\* seven-pawn side onto the last rank, where a queen of that side stands
C21_Witness ==
    LET g == ChessGame
        pawns(ch) == Cardinality({sq \in ChessSquares : g.board[sq[1]][sq[2]] = ch})
    IN \/ g.board[0][6] = "Q" /\ pawns("P") = 7 /\ pawns("Q") = 2
       \/ g.board[7][6] = "q" /\ pawns("p") = 7 /\ pawns("q") = 2

-----------------------------------------------------------------------------
(* Hnefatafl games played from the start position on the public board.  A   *)
(* game follows one script: the moves of the defenders' side (player 1) and *)
(* the moves of the attackers (player 2), taken in turn from whichever side *)
(* secrets.randbelow gave the first move.                                   *)

\* the king walks d5-d7-a7 next to the attacker a6; the attackers close a8 and
\* b7 around it
CaptureScript ==
    [p1 |-> << <<Coord("d","5"), Coord("d","2")>>, <<Coord("e","5"), Coord("d","5")>>,
               <<Coord("d","5"), Coord("d","7")>>, <<Coord("d","7"), Coord("a","7")>>,
               <<Coord("d","2"), Coord("d","3")>> >>,
     p2 |-> << <<Coord("f","1"), Coord("g","1")>>, <<Coord("g","1"), Coord("f","1")>>,
               <<Coord("f","1"), Coord("g","1")>>, <<Coord("e","8"), Coord("a","8")>>,
               <<Coord("b","5"), Coord("b","7")>> >>]

\* the king walks d5-d8-a8-a9 onto a castle
EscapeScript ==
    [p1 |-> << <<Coord("d","5"), Coord("d","2")>>, <<Coord("e","5"), Coord("d","5")>>,
               <<Coord("d","5"), Coord("d","8")>>, <<Coord("d","8"), Coord("a","8")>>,
               <<Coord("a","8"), Coord("a","9")>> >>,
     p2 |-> << <<Coord("f","1"), Coord("g","1")>>, <<Coord("g","1"), Coord("f","1")>>,
               <<Coord("f","1"), Coord("g","1")>>, <<Coord("g","1"), Coord("f","1")>>,
               <<Coord("f","1"), Coord("g","1")>> >>]

\* the defenders d5 and f5 step to d8 and f8 on both sides of the attacker e8
SandwichScript ==
    [p1 |-> << <<Coord("d","5"), Coord("d","8")>>, <<Coord("f","5"), Coord("f","8")>>,
               <<Coord("e","5"), Coord("f","5")>> >>,
     p2 |-> << <<Coord("f","1"), Coord("g","1")>>, <<Coord("g","1"), Coord("f","1")>>,
               <<Coord("e","9"), Coord("e","8")>> >>]

\* the attackers step onto the two neighbours of each castle while the
\* defender e7 steps aside and back
BlockadeScript ==
    [p1 |-> << <<Coord("e","7"), Coord("d","7")>>, <<Coord("d","7"), Coord("e","7")>>,
               <<Coord("e","7"), Coord("d","7")>>, <<Coord("d","7"), Coord("e","7")>>,
               <<Coord("e","7"), Coord("d","7")>>, <<Coord("d","7"), Coord("e","7")>>,
               <<Coord("e","7"), Coord("d","7")>>, <<Coord("d","7"), Coord("e","7")>> >>,
     p2 |-> << <<Coord("d","9"), Coord("b","9")>>, <<Coord("f","9"), Coord("h","9")>>,
               <<Coord("a","6"), Coord("a","8")>>, <<Coord("a","4"), Coord("a","2")>>,
               <<Coord("i","6"), Coord("i","8")>>, <<Coord("i","4"), Coord("i","2")>>,
               <<Coord("d","1"), Coord("b","1")>>, <<Coord("f","1"), Coord("h","1")>> >>]

HnefScripts == {CaptureScript, EscapeScript, SandwichScript, BlockadeScript}

HnefGame == store.games[GAME_HNEFATAFL][GAME_PUBLIC]

\* move number ply of the script in a game that player first began
ScriptMove(script, first, ply) ==
    LET own == IF ply % 2 = 1 THEN first ELSE Other(first)
        k == (ply + 1) \div 2
    IN IF k <= Len(script[SeatKeys[own]]) THEN Some(script[SeatKeys[own]][k])
       ELSE None

\* the game so far is the beginning of the script
FollowsScript(script, game) ==
    LET h == game.move_history
    IN \A i \in 1..Len(h) :
          /\ ScriptMove(script, h[1].mover, i) # None
          /\ Get(ScriptMove(script, h[1].mover, i)) = <<h[i].origin, h[i].destination>>

\* the next moves of the scripts the game follows, submitted by either player
ScriptPayloads(game) ==
    LET ply == Len(game.move_history) + 1
        first == IF ply = 1 THEN game.current_player ELSE game.move_history[1].mover
    IN {[player |-> p, from_square |-> Get(ScriptMove(s, first, ply))[1],
         to_square |-> Get(ScriptMove(s, first, ply))[2]] :
           p \in {1, 2},
           s \in {sc \in HnefScripts : /\ FollowsScript(sc, game)
                                       /\ ScriptMove(sc, first, ply) # None}}

HnefSubmitMove(session_id, payload) ==
    Commit(GAME_HNEFATAFL, GAME_PUBLIC,
           post_move(GAME_HNEFATAFL, HnefGame, GAME_PUBLIC, session_id, payload, now))

HnefResetGame(session_id, payload, rand) ==
    /\ HnefGame.stats.total_games < MaxBookGames
    /\ Commit(GAME_HNEFATAFL, GAME_PUBLIC,
              reset_game(GAME_HNEFATAFL, HnefGame, GAME_PUBLIC, session_id, payload,
                         rand))

NextHnef ==
    \/ \E payload \in ScriptPayloads(HnefGame) : HnefSubmitMove("s1", payload)
    \/ \E payload \in ThreadResets, rand \in {0, 1} : HnefResetGame("s1", payload, rand)

SpecHnef == Init /\ [][NextHnef]_vars


\* every pair of squares of the 9x9 board, as a move request of either player
HnefRankChars == <<"1", "2", "3", "4", "5", "6", "7", "8", "9">>

HnefCoords == {Coord(HNEF_FILES[c], HnefRankChars[r]) : c \in 1..BOARD_SIZE,
                                                        r \in 1..BOARD_SIZE}

HnefMoveRequests ==
    {[player |-> p, from_square |-> f, to_square |-> t] :
        p \in {1, 2}, f \in HnefCoords, t \in HnefCoords}

\* the pieces of a player: defenders and king for player 1, attackers for 2
PiecesOf(player) == IF player = 1 THEN {"D", "K"} ELSE {"A"}

\* the square a coordinate of HnefCoords names
SquareOf(coord) ==
    <<BOARD_SIZE - (CHOOSE r \in 1..BOARD_SIZE : HnefRankChars[r] = coord[2]),
      (CHOOSE c \in 1..BOARD_SIZE : HNEF_FILES[c] = coord[1]) - 1>>

\* C22: the board after an accepted hnefatafl move is the board before it with
\* the moved piece on its landing square, its origin empty, and exactly the
\* sandwiched squares emptied: the enemy pieces other than the king that stand
\* orthogonally next to the landing square with a piece of the mover behind
\* them.  Every other square is as it was.
C22_Captures ==
    \A payload \in HnefMoveRequests :
       LET g == HnefGame
           r == post_move(GAME_HNEFATAFL, g, GAME_PUBLIC, "s1", payload, now)
           from == SquareOf(payload.from_square)
           to == SquareOf(payload.to_square)
           moved == [sq \in HnefSquares |->
                       IF sq = from THEN "."
                       ELSE IF sq = to THEN g.board[from[1]][from[2]]
                       ELSE g.board[sq[1]][sq[2]]]
           taken == {sq \in HnefSquares :
                       /\ Abs(sq[1] - to[1]) + Abs(sq[2] - to[2]) = 1
                       /\ moved[sq] \in PiecesOf(Other(payload.player)) \ {"K"}
                       /\ LET behind == <<2 * sq[1] - to[1], 2 * sq[2] - to[2]>>
                          IN /\ behind \in HnefSquares
                             /\ moved[behind] \in PiecesOf(payload.player)}
       IN r.ok => \A sq \in HnefSquares :
                     r.game.board[sq[1]][sq[2]] = IF sq \in taken THEN "." ELSE moved[sq]

\* the defender that has just landed on f8 has taken the attacker that stood
\* on e8 between it and the defender on d8
C22_Witness ==
    /\ HnefGame.board[1][3] = "D" /\ HnefGame.board[1][5] = "D"
    /\ HnefGame.board[1][4] = "."
    /\ HnefGame.move_history # <<>>
    /\ HnefGame.move_history[Len(HnefGame.move_history)].destination = Coord("f", "8")


\* the squares of the board orthogonally next to a square
NextTo(sq) == {n \in HnefSquares : Abs(n[1] - sq[1]) + Abs(n[2] - sq[2]) = 1}

\* the king of the board stands with an attacker on every square next to it
KingSurrounded(board) ==
    \E k \in HnefSquares :
       /\ board[k[1]][k[2]] = "K"
       /\ \A n \in NextTo(k) : board[n[1]][n[2]] = "A"

\* the game has ended with the capture of the king and the win of player 2
EndedByCapture(game) ==
    /\ game.game_over
    /\ game.result # None
    /\ Get(game.result).title = "Capture"
    /\ Get(game.result).winner = Some(2)

\* a board with nothing but a king and the pieces given for the squares next
\* to it, from the lowest square up
LoneKing(k, pieces) ==
    LET around == NextTo(k)
        rank(n) == Cardinality({m \in around :
                      m[1] < n[1] \/ (m[1] = n[1] /\ m[2] <= n[2])})
    IN [r \in 0..(BOARD_SIZE - 1) |-> [c \in 0..(BOARD_SIZE - 1) |->
          IF <<r, c>> = k THEN "K"
          ELSE IF <<r, c>> \in around THEN pieces[rank(<<r, c>>)]
          ELSE "."]]

\* C23: after every accepted hnefatafl move the game has ended with the
\* capture of the king and the win of player 2 exactly if every square of the
\* board orthogonally next to the king holds an attacker, and the same holds
\* of the game in every reachable state; is_king_captured says of a king in a
\* corner, with two squares next to it, on an edge, with three, and inside the
\* board, with four, that it is captured exactly if all of them hold attackers.
C23_KingCapture ==
    /\ EndedByCapture(HnefGame) <=> KingSurrounded(HnefGame.board)
    /\ \A payload \in HnefMoveRequests :
          LET r == post_move(GAME_HNEFATAFL, HnefGame, GAME_PUBLIC, "s1", payload, now)
          IN r.ok => (EndedByCapture(r.game) <=> KingSurrounded(r.game.board))
    /\ \A k \in {<<0, 0>>, <<8, 8>>, <<2, 0>>, <<0, 1>>, <<4, 4>>, <<5, 3>>} :
          \A pieces \in [1..Cardinality(NextTo(k)) -> {".", "A", "D"}] :
             is_king_captured(LoneKing(k, pieces))
                <=> \A i \in 1..Cardinality(NextTo(k)) : pieces[i] = "A"

\* the king on a7, on the edge, has been captured by the attackers on the
\* three squares a8, a6 and b7 next to it
C23_Witness ==
    /\ EndedByCapture(HnefGame)
    /\ HnefGame.board[2][0] = "K"
    /\ Cardinality(NextTo(<<2, 0>>)) = 3
    /\ \A n \in NextTo(<<2, 0>>) : HnefGame.board[n[1]][n[2]] = "A"


\* the squares of the board that hold a king
Kings(board) == {sq \in HnefSquares : board[sq[1]][sq[2]] = "K"}

\* C24: the hnefatafl board of every reachable state holds exactly one king,
\* while the game goes on and after its end, and so does the board after
\* every accepted move: neither a move nor a capture removes the king or
\* makes a second one.
C24_OneKing ==
    /\ Cardinality(Kings(HnefGame.board)) = 1
    /\ \A payload \in HnefMoveRequests :
          LET r == post_move(GAME_HNEFATAFL, HnefGame, GAME_PUBLIC, "s1", payload, now)
          IN r.ok => Cardinality(Kings(r.game.board)) = 1

\* the game goes on with the king, moved from the throne to a7, between the
\* attackers on a8 and a6
C24_Witness ==
    /\ ~HnefGame.game_over
    /\ Kings(HnefGame.board) = {<<2, 0>>}
    /\ HnefGame.board[1][0] = "A" /\ HnefGame.board[3][0] = "A"


\* every square of the board next to each of the four corners holds an attacker
AllCornersClosed(board) ==
    \A corner \in {<<0, 0>>, <<0, 8>>, <<8, 0>>, <<8, 8>>} :
       \A n \in NextTo(corner) : board[n[1]][n[2]] = "A"

\* C25: no reachable hnefatafl board has attackers on all the squares next to
\* all four corner castles, and no accepted move makes such a board; a move
\* of player 1, whose turn it is in a game that goes on, is accepted exactly
\* if a piece of player 1 stands on its origin and the path to its
\* destination is clear, whatever the attackers hold.
C25_CastlesNeverAllBlocked ==
    /\ ~AllCornersClosed(HnefGame.board)
    /\ \A payload \in HnefMoveRequests :
          LET g == HnefGame
              r == post_move(GAME_HNEFATAFL, g, GAME_PUBLIC, "s1", payload, now)
              from == SquareOf(payload.from_square)
              to == SquareOf(payload.to_square)
              piece == g.board[from[1]][from[2]]
          IN /\ r.ok => ~AllCornersClosed(r.game.board)
             /\ (payload.player = 1 /\ g.current_player = 1 /\ ~g.game_over)
                   => (r.ok <=> /\ piece \in {"D", "K"}
                                /\ path_clear(g.board, [row |-> from[1], col |-> from[2]],
                                              [row |-> to[1], col |-> to[2]], piece))

\* attackers hold seven of the eight squares next to the corners, it is the
\* attackers' turn, and the move f1-h1 onto the eighth, over empty squares, is
\* rejected as illegal
C25_Witness ==
    LET g == HnefGame
        payload == [player |-> 2, from_square |-> Coord("f", "1"),
                    to_square |-> Coord("h", "1")]
        r == post_move(GAME_HNEFATAFL, g, GAME_PUBLIC, "s1", payload, now)
    IN /\ ~g.game_over /\ g.current_player = 2
       /\ Cardinality({n \in HnefSquares :
             /\ \E corner \in {<<0, 0>>, <<0, 8>>, <<8, 0>>, <<8, 8>>} : n \in NextTo(corner)
             /\ g.board[n[1]][n[2]] = "A"}) = 7
       /\ g.board[8][5] = "A" /\ g.board[8][6] = "." /\ g.board[8][7] = "."
       /\ ~r.ok /\ r.error = "Illegal move"


\* the throne and the four corner castles
KingOnlySquares == {<<4, 4>>, <<0, 0>>, <<0, 8>>, <<8, 0>>, <<8, 8>>}

\* the squares a piece sliding from one square to another enters: those
\* strictly between the two on their row or column, and the destination
Entered(from, to) ==
    {sq \in HnefSquares :
       /\ sq # from
       /\ \/ /\ sq[1] = from[1] /\ sq[1] = to[1]
             /\ \/ from[2] < sq[2] /\ sq[2] <= to[2]
                \/ to[2] <= sq[2] /\ sq[2] < from[2]
          \/ /\ sq[2] = from[2] /\ sq[2] = to[2]
             /\ \/ from[1] < sq[1] /\ sq[1] <= to[1]
                \/ to[1] <= sq[1] /\ sq[1] < from[1]}

\* C26: every accepted hnefatafl move goes along a row or a column by at
\* least one square, every square it enters, the destination included, is
\* empty before the move, and a piece other than the king enters neither the
\* throne nor a corner castle; in every reachable state the throne and the
\* castles hold the king or nothing.
C26_SlidesAndKingOnlySquares ==
    /\ \A sq \in KingOnlySquares : HnefGame.board[sq[1]][sq[2]] \in {".", "K"}
    /\ \A payload \in HnefMoveRequests :
          LET g == HnefGame
              r == post_move(GAME_HNEFATAFL, g, GAME_PUBLIC, "s1", payload, now)
              from == SquareOf(payload.from_square)
              to == SquareOf(payload.to_square)
          IN r.ok =>
                /\ from # to
                /\ from[1] = to[1] \/ from[2] = to[2]
                /\ to \in Entered(from, to)
                /\ \A sq \in Entered(from, to) : g.board[sq[1]][sq[2]] = "."
                /\ g.board[from[1]][from[2]] # "K"
                      => Entered(from, to) \cap KingOnlySquares = {}
                /\ \A sq \in KingOnlySquares : r.game.board[sq[1]][sq[2]] \in {".", "K"}

\* the king has left the throne for d7, it is the defenders' turn, and the
\* moves of the defender f5 onto the empty throne and over it to d5 are both
\* rejected as illegal
C26_Witness ==
    LET g == HnefGame
        onto == [player |-> 1, from_square |-> Coord("f", "5"),
                 to_square |-> Coord("e", "5")]
        over == [player |-> 1, from_square |-> Coord("f", "5"),
                 to_square |-> Coord("d", "5")]
    IN /\ ~g.game_over /\ g.current_player = 1
       /\ g.board[2][3] = "K"
       /\ g.board[4][4] = "." /\ g.board[4][3] = "." /\ g.board[4][5] = "D"
       /\ post_move(GAME_HNEFATAFL, g, GAME_PUBLIC, "s1", onto, now).error = "Illegal move"
       /\ post_move(GAME_HNEFATAFL, g, GAME_PUBLIC, "s1", over, now).error = "Illegal move"

-----------------------------------------------------------------------------
(* games/limiter.py: the rate limiter, and the requests that pass through   *)
(* it before they take state_lock.                                          *)

\* the limit and the window, in seconds, the requests of the model are held
\* to, in place of STATE_RATE_LIMIT and MUTATION_RATE_LIMIT
RateLimit == 2
RateWindow == 3
\* allow_request is called at most MaxCalls times in a run
MaxCalls == RateLimit + 2
\* at most MaxRequests requests are served in a run
MaxRequests == 3

MAX_BUCKETS == 10000

\* f"{client_ip}:{action}"
client_bucket(client_ip, action) == <<client_ip, action>>

\* the keys of b whose window has not run out at t
prune(b, t, window_seconds) ==
    LET expired == {key \in DOMAIN b : t - b[key][2] >= window_seconds}
    IN [key \in DOMAIN b \ expired |-> b[key]]

\* faulty variant: the count is never compared with the limit
allow_request_unlimited(b, key, limit, window_seconds, t) ==
    [allowed |-> TRUE, buckets |-> b]

\* the value returned and the new _buckets; b maps a key to <<count, window_start>>
allow_request(b, key, limit, window_seconds, t) ==
    LET entry == IF key \in DOMAIN b THEN b[key] ELSE <<0, t>>
        expired == t - entry[2] >= window_seconds
        count == (IF expired THEN 0 ELSE entry[1]) + 1
        window_start == IF expired THEN t ELSE entry[2]
        stored == [k \in DOMAIN b \cup {key} |->
                     IF k = key THEN <<count, window_start>> ELSE b[k]]
    IN [allowed |-> count <= limit,
        buckets |-> IF Cardinality(DOMAIN stored) > MAX_BUCKETS
                    THEN prune(stored, t, window_seconds)
                    ELSE stored]

\* the buckets of the one client of the model
LimiterKeys == {client_bucket("127.0.0.1", action) : action \in {"state", "move"}}

\* the clock readings at which the limiter is called
LimiterTimes == StartTime..(StartTime + RateWindow + 1)

\* one call of allow_request, from taking _lock to releasing it
AllowRequest(key) ==
    LET r == allow_request(buckets, key, RateLimit, RateWindow, now)
    IN /\ Len(calls) < MaxCalls
       /\ limiter_lock = None
       /\ buckets' = r.buckets
       /\ calls' = Append(calls, [key |-> key, at |-> now, allowed |-> r.allowed])
       /\ UNCHANGED <<store, disk, now, threads, limiter_lock, requests>>

NextLimiter ==
    \/ \E key \in LimiterKeys : AllowRequest(key)
    \/ \E t \in LimiterTimes : Tick(t)

SpecLimiter == Init /\ [][NextLimiter]_vars

\* C27: for every key, the calls of allow_request that returned true within
\* any RateWindow seconds, counted from one of them, are at most RateLimit.
C27_SlidingWindow ==
    \A i \in 1..Len(calls) :
       calls[i].allowed =>
          Cardinality({j \in 1..Len(calls) :
                          /\ calls[j].key = calls[i].key
                          /\ calls[j].allowed
                          /\ calls[i].at <= calls[j].at
                          /\ calls[j].at < calls[i].at + RateWindow}) <= RateLimit


-----------------------------------------------------------------------------
(* Persistence of every mutation *)

\* C28: every request that changes the store, an accepted move, a reset, a
\* seat claim, or a GetState or a rejected move that clears an expired seat,
\* leaves the live file, when it releases the lock, with the serialization of
\* the store as it then is.
C28_SavedBeforeReturn ==
    [][store' # store => disk'.live = Some(json_dumps(store'))]_vars

\* a seat of a seats board was claimed and has expired in a later request:
\* no seat is held, no move was played, the version counts the claim and the
\* expiry, and the live file holds the store
C28_Witness ==
    /\ \E game_name \in GameNames :
          LET g == store.games[game_name][GAME_SEATS]
          IN /\ g.seats = EmptySeats
             /\ g.move_history = <<>>
             /\ g.version >= 2
    /\ now > StartTime + SEAT_TIMEOUT_SECONDS
    /\ disk.live = Some(json_dumps(store))


-----------------------------------------------------------------------------
(* Concurrent requests: each runs on a thread of its own, calls             *)
(* enforce_rate_limit, then enters `with state_lock:` and runs its handler. *)

\* the handlers requests are sent to, all on the chess seats board
RequestHandlers == {"state", "seat", "move"}

\* the move submitted: e7-e5 for player 2 while it is the turn of player 1
RequestMove == [player |-> 2, from_square |-> Coord("e", "7"),
                to_square |-> Coord("e", "5")]

\* what the handler of a request does to the addressed GameState
HandlerResult(request) ==
    LET current == get_game(GAME_SEATS, GAME_CHESS)
    IN IF request.handler = "state"
       THEN LET r == get_state(current, GAME_SEATS, request.session_id, now)
            IN [game |-> r.game, saved |-> r.saved, outcome |-> "ok"]
       ELSE IF request.handler = "seat"
       THEN LET r == seat(current, request.session_id, now)
            IN [game |-> r.game, saved |-> r.saved, outcome |-> "ok"]
       ELSE LET r == post_move(GAME_CHESS, current, GAME_SEATS, request.session_id,
                               RequestMove, now)
            IN [game |-> r.game, saved |-> r.saved,
                outcome |-> IF r.ok THEN "ok" ELSE r.error]

\* the position of request i becomes pc
Goto(i, pc) == [requests EXCEPT ![i].pc = pc]

\* a request arrives and is about to call enforce_rate_limit
Arrive(handler, session_id) ==
    /\ Len(requests) < MaxRequests
    /\ requests' = Append(requests, [handler |-> handler, session_id |-> session_id,
                                     pc |-> "enforce_rate_limit", outcome |-> ""])
    /\ UNCHANGED <<store, disk, now, threads, buckets, limiter_lock, calls>>

\* allow_request: `with _lock:` is entered when the lock is free
EnterLimiter(i) ==
    /\ i <= Len(requests) /\ requests[i].pc = "enforce_rate_limit"
    /\ limiter_lock = None
    /\ limiter_lock' = Some(i)
    /\ requests' = Goto(i, "allow_request")
    /\ UNCHANGED <<store, disk, now, threads, buckets, calls>>

\* faulty variant: allow_request returns without releasing _lock
LeaveLimiter_keeps_lock(i) ==
    LET key == client_bucket("127.0.0.1", requests[i].handler)
        r == allow_request(buckets, key, RateLimit, RateWindow, now)
    IN /\ i <= Len(requests) /\ requests[i].pc = "allow_request"
       /\ buckets' = r.buckets
       /\ calls' = Append(calls, [key |-> key, at |-> now, allowed |-> r.allowed])
       /\ requests' = IF r.allowed THEN Goto(i, "state_lock")
                      ELSE [requests EXCEPT ![i].pc = "done",
                                            ![i].outcome = "Rate limit exceeded"]
       /\ UNCHANGED <<store, disk, now, threads, limiter_lock>>

\* the body of allow_request under _lock, the release of _lock, and
\* enforce_rate_limit: HTTPException 429 when the call returned false
LeaveLimiter(i) ==
    LET key == client_bucket("127.0.0.1", requests[i].handler)
        r == allow_request(buckets, key, RateLimit, RateWindow, now)
    IN /\ i <= Len(requests) /\ requests[i].pc = "allow_request"
       /\ buckets' = r.buckets
       /\ calls' = Append(calls, [key |-> key, at |-> now, allowed |-> r.allowed])
       /\ limiter_lock' = None
       /\ requests' = IF r.allowed THEN Goto(i, "state_lock")
                      ELSE [requests EXCEPT ![i].pc = "done",
                                            ![i].outcome = "Rate limit exceeded"]
       /\ UNCHANGED <<store, disk, now, threads>>

\* `with state_lock:` is entered when the lock is free
AcquireStateLock(i) ==
    /\ i <= Len(requests) /\ requests[i].pc = "state_lock"
    /\ lock = None
    /\ lock' = Some([request |-> i])
    /\ requests' = Goto(i, "handler")
    /\ UNCHANGED <<store, disk, now, inflight, delivered, buckets, limiter_lock, calls>>

\* the body of the handler under state_lock, its return, with a snapshot or
\* an error, and the release of the lock
Handle(i) ==
    /\ i <= Len(requests) /\ requests[i].pc = "handler"
    /\ LET r == HandlerResult(requests[i])
       IN /\ store' = [store EXCEPT !.games[GAME_CHESS][GAME_SEATS] = r.game]
          /\ disk' = IF r.saved THEN save_state(disk, store') ELSE disk
          /\ requests' = [requests EXCEPT ![i].pc = "done", ![i].outcome = r.outcome]
    /\ lock' = None
    /\ UNCHANGED <<now, inflight, delivered, buckets, limiter_lock, calls>>

NextRequests ==
    \/ \E handler \in RequestHandlers : Arrive(handler, "s1")
    \/ \E i \in 1..MaxRequests : EnterLimiter(i)
    \/ \E i \in 1..MaxRequests : LeaveLimiter(i)
    \/ \E i \in 1..MaxRequests : AcquireStateLock(i)
    \/ \E i \in 1..MaxRequests : Handle(i)

\* the next step of the thread of request i
Step(i) == EnterLimiter(i) \/ LeaveLimiter(i) \/ AcquireStateLock(i) \/ Handle(i)

\* a thread that can take its next step from some time on does take it
SpecRequests ==
    /\ Init
    /\ [][NextRequests]_vars
    /\ \A i \in 1..MaxRequests : WF_vars(Step(i))

\* request i is inside `with _lock:`
HoldsLimiterLock(i) == limiter_lock = Some(i)

\* request i is inside `with state_lock:`
HoldsStateLock(i) == lock = Some([request |-> i])

\* C29: no request is ever inside `with _lock:` and `with state_lock:` at
\* once; the request inside `with state_lock:` can always take its next step,
\* whatever the other requests do; a request that is done holds no lock; and
\* every request that has arrived is eventually done, with a snapshot, an
\* error of its handler or the error of the rate limiter.
C29_NoDeadlock ==
    /\ [](\A i \in 1..MaxRequests :
            /\ ~(HoldsLimiterLock(i) /\ HoldsStateLock(i))
            /\ HoldsStateLock(i) => ENABLED Handle(i)
            /\ (i <= Len(requests) /\ requests[i].pc = "done")
                  => ~HoldsLimiterLock(i) /\ ~HoldsStateLock(i))
    /\ \A i \in 1..MaxRequests :
          (i <= Len(requests)) ~> (i <= Len(requests) /\ requests[i].pc = "done")

\* MaxRequests requests have arrived and all are done: one was refused by the
\* rate limiter, another was answered with an error by its handler, and both
\* locks are free
C29_Witness ==
    /\ Len(requests) = MaxRequests
    /\ \A i \in 1..MaxRequests : requests[i].pc = "done"
    /\ \E i \in 1..MaxRequests : requests[i].outcome = "Rate limit exceeded"
    /\ \E i \in 1..MaxRequests : requests[i].outcome \notin {"ok", "Rate limit exceeded"}
    /\ lock = None /\ limiter_lock = None


-----------------------------------------------------------------------------
(* Statistics *)

\* the stats with the counter of the winner, or of the draws, and the total
\* raised by one
Counted(stats, winner) ==
    [p1_wins |-> stats.p1_wins + (IF winner = Some(1) THEN 1 ELSE 0),
     p2_wins |-> stats.p2_wins + (IF winner = Some(2) THEN 1 ELSE 0),
     draws |-> stats.draws + (IF winner = None THEN 1 ELSE 0),
     total_games |-> stats.total_games + 1]

\* C30: in every reachable state the total_games of every GameState is the
\* sum of its p1_wins, p2_wins and draws; a request that ends a running game
\* raises total_games and the one counter of the winner of the result, draws
\* when the winner is null, by one; every other request, a move in a game
\* that goes on, a rejected move, a reset, leaves stats as they were; and
\* update_stats counts a result won by player 1, by player 2 or by nobody so.
C30_StatsConsistent ==
    /\ [](\A b \in Boards :
            LET stats == store.games[b[1]][b[2]].stats
            IN /\ stats.total_games = stats.p1_wins + stats.p2_wins + stats.draws
               /\ \A winner \in {Some(1), Some(2), None} :
                     update_stats(stats, Some([title |-> "", message |-> "",
                                               winner |-> winner]))
                        = Counted(stats, winner))
    /\ [][\A b \in Boards :
            LET before == store.games[b[1]][b[2]]
                after == store'.games[b[1]][b[2]]
            IN IF ~before.game_over /\ after.game_over
               THEN /\ after.result # None
                    /\ after.stats = Counted(before.stats, Get(after.result).winner)
               ELSE after.stats = before.stats]_vars

\* a game drawn by stalemate and, before or after it and a reset, a game won
\* by player 2 have been played and counted
C30_Witness ==
    /\ ChessGame.stats = [p1_wins |-> 0, p2_wins |-> 1, draws |-> 1, total_games |-> 2]
    /\ ChessGame.game_over


-----------------------------------------------------------------------------
(* Games played to their end on the public board of either game: a chess    *)
(* game won by Black, one won by White, and the scripted hnefatafl games.   *)

\* 1.e4 e5 2.Bc4 Nc6 3.Qh5 Nf6 4.Qxf7 mate
ScholarsMate ==
    << <<Coord("e","2"), Coord("e","4")>>, <<Coord("e","7"), Coord("e","5")>>,
       <<Coord("f","1"), Coord("c","4")>>, <<Coord("b","8"), Coord("c","6")>>,
       <<Coord("d","1"), Coord("h","5")>>, <<Coord("g","8"), Coord("f","6")>>,
       <<Coord("h","5"), Coord("f","7")>> >>

\* the moves submitted as move number ply of a chess game: those of the two
\* mates, by either player
EndingPayloads(ply) ==
    {[player |-> p, from_square |-> line[ply][1], to_square |-> line[ply][2]] :
        p \in {1, 2},
        line \in {l \in {CheckmateLine, ScholarsMate} : ply <= Len(l)}}

EndingChessMove(payload) ==
    /\ OnlyBoardInUse(GAME_CHESS, GAME_PUBLIC)
    /\ BookSubmitMove("s1", payload)

EndingChessReset(payload) ==
    /\ OnlyBoardInUse(GAME_CHESS, GAME_PUBLIC)
    /\ BookResetGame("s1", payload)

EndingHnefMove(payload) ==
    /\ OnlyBoardInUse(GAME_HNEFATAFL, GAME_PUBLIC)
    /\ HnefSubmitMove("s1", payload)

EndingHnefReset(payload, rand) ==
    /\ OnlyBoardInUse(GAME_HNEFATAFL, GAME_PUBLIC)
    /\ HnefResetGame("s1", payload, rand)

NextEndings ==
    \/ \E payload \in EndingPayloads(Len(ChessGame.move_history) + 1) :
          EndingChessMove(payload)
    \/ \E payload \in ThreadResets : EndingChessReset(payload)
    \/ \E payload \in ScriptPayloads(HnefGame) : EndingHnefMove(payload)
    \/ \E payload \in ThreadResets, rand \in {0, 1} : EndingHnefReset(payload, rand)

SpecEndings == Init /\ [][NextEndings]_vars

\* the game has ended with a winner, who is not the side to move and who made
\* the last move recorded
WonByMover(game) ==
    (game.game_over /\ game.result # None /\ Get(game.result).winner # None)
       => /\ Get(game.result).winner # Some(game.current_player)
          /\ game.move_history # <<>>
          /\ Get(game.result).winner
                = Some(game.move_history[Len(game.move_history)].mover)

\* C31: in every reachable ended GameState whose result names a winner, the
\* winner is not the side to move and is the player of the last move; the
\* same holds after every move request that is accepted on the board in use;
\* and a hnefatafl game that ended as an Escape was ended by a move of
\* player 1, one that ended as a Capture by a move of player 2.
C31_WinnerMadeLastMove ==
    /\ \A b \in Boards : WonByMover(store.games[b[1]][b[2]])
    /\ HnefGame.game_over =>
          Get(HnefGame.result).title
             = IF HnefGame.move_history[Len(HnefGame.move_history)].mover = 1
               THEN "Escape" ELSE "Capture"
    /\ ChessGame.version > 0 =>
          \A payload \in AllMoveRequests :
             LET r == post_move(GAME_CHESS, ChessGame, GAME_PUBLIC, "s1", payload, now)
             IN r.ok => /\ WonByMover(r.game)
                        /\ r.game.game_over /\ Get(r.game.result).winner # None
                              => Get(r.game.result).winner = Some(payload.player)
    /\ HnefGame.version > 0 =>
          \A payload \in HnefMoveRequests :
             LET r == post_move(GAME_HNEFATAFL, HnefGame, GAME_PUBLIC, "s1", payload,
                                now)
             IN r.ok => /\ WonByMover(r.game)
                        /\ r.game.game_over
                              => Get(r.game.result).winner = Some(payload.player)

\* White has mated with 4.Qxf7 and it is Black's turn
C31_Witness ==
    /\ ChessGame.game_over
    /\ Get(ChessGame.result).title = "Checkmate"
    /\ Get(ChessGame.result).winner = Some(1)
    /\ ChessGame.current_player = 2
    /\ ChessGame.move_history[Len(ChessGame.move_history)].destination
          = Coord("f", "7")


-----------------------------------------------------------------------------
(* A piece that moves between two enemy pieces *)

\* the squares of a board that hold a piece of a player
Held(board, player) ==
    {sq \in HnefSquares : board[sq[1]][sq[2]] \in PiecesOf(player)}

\* the square has enemy pieces of the player on two opposite sides
Flanked(board, sq, player) ==
    \E d \in {<<0, 1>>, <<1, 0>>} :
       /\ <<sq[1] + d[1], sq[2] + d[2]>> \in Held(board, Other(player))
       /\ <<sq[1] - d[1], sq[2] - d[2]>> \in Held(board, Other(player))

\* C32: after every accepted hnefatafl move the moved piece stands on its
\* destination, also when enemy pieces stand on two opposite sides of it, its
\* destination is not among the captures collect_captures finds for the move,
\* and the mover's side has as many pieces as before the move.
C32_NoSelfCapture ==
    \A payload \in HnefMoveRequests :
       LET g == HnefGame
           r == post_move(GAME_HNEFATAFL, g, GAME_PUBLIC, "s1", payload, now)
           from == SquareOf(payload.from_square)
           to == SquareOf(payload.to_square)
           moved == hnef_apply_move(g.board, [row |-> from[1], col |-> from[2]],
                                    [row |-> to[1], col |-> to[2]])
       IN r.ok =>
             /\ r.game.board[to[1]][to[2]] = g.board[from[1]][from[2]]
             /\ to \notin collect_captures(moved, to[1], to[2], payload.player)
             /\ Cardinality(Held(r.game.board, payload.player))
                   = Cardinality(Held(g.board, payload.player))

\* the attacker that has just moved from e9 to e8 stands there between the
\* defenders on d8 and f8
C32_Witness ==
    /\ HnefGame.move_history # <<>>
    /\ HnefGame.move_history[Len(HnefGame.move_history)]
          = [mover |-> 2, origin |-> Coord("e", "9"), destination |-> Coord("e", "8")]
    /\ HnefGame.board[1][4] = "A"
    /\ Flanked(HnefGame.board, <<1, 4>>, 2)


-----------------------------------------------------------------------------
(* One seat per session *)

\* the two seats of a game are not both held by one session
DistinctSeats(game) ==
    (game.seats.p1 # None /\ game.seats.p2 # None)
       => Get(game.seats.p1).session_id # Get(game.seats.p2).session_id

\* C33: in every reachable state the two seats of each seats GameState are
\* not held by the same session, and they are not after a ClaimSeat of any
\* session in that state, which gives a session that holds a seat that seat
\* again.
C33_OneSeatPerSession ==
    \A game_name \in GameNames :
       LET g == store.games[game_name][GAME_SEATS]
       IN /\ DistinctSeats(g)
          /\ \A sid \in Sessions :
                LET r == seat(g, sid, now)
                    held == seat_player_for_session(expire_seats(g, now).game, sid)
                IN /\ DistinctSeats(r.game)
                   /\ held # None => r.player = Get(held)

\* a session that holds seat p1 has claimed a seat again while p2 was free:
\* two claims were counted, no time has passed, and p2 is still free
C33_Witness ==
    \E game_name \in GameNames :
       LET g == store.games[game_name][GAME_SEATS]
       IN /\ g.seats.p1 # None /\ g.seats.p2 = None
          /\ g.version = 2
          /\ g.move_history = <<>>
          /\ now = StartTime

=============================================================================
